---- MODULE Spec2Model ----
(***************************************************************************)
(* Model of the spyre-rag ingestion pipeline (digitize/doc_utils.py,       *)
(* common/llm_utils.py, digitize/ingest.py, digitize/cli.py), of the job   *)
(* submission API (digitize/app.py) and of the retrieval service           *)
(* (retrieve/backend_server.py, retrieve/backend_utils.py).                *)
(*                                                                         *)
(* The module holds several state machines over disjoint groups of         *)
(* variables; each specification drives one group and leaves the others    *)
(* at their idle value:                                                    *)
(*   SpecSplit  split_text_into_token_chunks, called directly or through   *)
(*              flush_chunk                                                *)
(*   SpecTable  process_table with the LLM classification and              *)
(*              summarization of a document's tables                       *)
(*   SpecChunk  chunk_single_file reading the blocks of a text artifact    *)
(*   SpecFile   one file taken through convert_document,                   *)
(*              process_converted_document and chunk_single_file on any    *)
(*              state of the cache directory                               *)
(*   SpecDocs   create_chunk_documents on a chunk and a table artifact      *)
(*   SpecSession  create_llm_session called repeatedly                     *)
(*   SpecText   process_text on the texts of a converted document          *)
(*   SpecPool   the three worker pools of _run_batch on one batch of any    *)
(*              size up to MaxBatch                                        *)
(*   SpecBatch  one call of _run_batch from entry to return, under weak    *)
(*              fairness, on a batch of up to MaxLiveBatch files           *)
(*   SpecJobs   POST /v1/documents and the background tasks that hold      *)
(*              the semaphore slots                                        *)
(*   SpecChat   chat_completion and the stream that releases its slot      *)
(*   SpecSearch search_only on a ranked list of hits                       *)
(*   Spec       process_documents, ingest and the CLI over repeated runs   *)
(*              on one cache directory: change tracking, partitioning,     *)
(*              the three worker pools of _run_batch, the merge            *)
(***************************************************************************)
EXTENDS Integers, Sequences, FiniteSets, TLC

(* ------------------------------------------------------------------ *)
(* Bounds of the model                                                 *)
(* ------------------------------------------------------------------ *)
MaxSentences == 4
MaxTokenLen == 3
MaxBudget == 3
MaxTables == 3
MaxBlocks == 4
ChunkBudget == 2
MaxRuns == 2
MaxChanges == 1
MaxBatch == 5
MaxTexts == 4
MaxCalls == 3
MaxDocChunks == 2
MaxLiveBatch == 3
MaxRequests == 4
MaxFiles == 2
MaxChats == 3
MaxConcurrent == 2
MaxHits == 3
MaxTopR == 3
MaxScore == 2

(* ------------------------------------------------------------------ *)
(* Program constants                                                   *)
(* ------------------------------------------------------------------ *)
\* def split_text_into_token_chunks(..., max_tokens=512, overlap=50)
DEFAULT_OVERLAP == 50
\* def classify_text_with_llm(..., batch_size=32)
CLASSIFY_BATCH_SIZE == 32
WORKER_SIZE == 4
HEAVY_PDF_CONVERT_WORKER_SIZE == 2
HEAVY_PDF_PAGE_THRESHOLD == 500
\* digitization_semaphore = asyncio.BoundedSemaphore(2)
DIGITIZATION_SLOTS == 2
\* ingestion_semaphore = asyncio.BoundedSemaphore(1)
INGESTION_SLOTS == 1

VARIABLES
    sp_pc,        \* "in": inputs drawn, "out": the call has returned
    sp_tokens,    \* token length of each sentence of the text, in order
    sp_max,       \* max_tokens
    sp_overlap,   \* overlap argument in force for the call
    sp_via,       \* "none" | "flush_chunk" | "direct"
    sp_chunks     \* returned list; a chunk is the sequence of sentence indices joined into it

splitVars == <<sp_pc, sp_tokens, sp_max, sp_overlap, sp_via, sp_chunks>>

VARIABLES
    tb_pc,         \* position in process_table
    tb_n,          \* number of tables of the converted document (table i has html i)
    tb_summaries,  \* summarize_table's list: "None" until table i's future is collected
    tb_decisions,  \* classify_text_with_llm's list
    tb_i,          \* classify loop variable: first table of the next batch (1-based)
    tb_failed,     \* first tables of the batches whose classification request failed
    tb_sum_failed, \* tables whose summarization request failed
    tb_out         \* the table artifact written: idx -> record, or "unwritten"

tableVars == <<tb_pc, tb_n, tb_summaries, tb_decisions, tb_i, tb_failed, tb_sum_failed,
               tb_out>>

VARIABLES
    ck_pc,                  \* "loop": reading blocks, "done": chunk artifact saved
    ck_data,                \* blocks of the text artifact read so far
    font_size_levels,       \* collect_header_font_sizes(data)
    current_chapter,
    current_section,
    current_subsection,
    current_subsubsection,
    current_chunk,          \* the accumulating buffer
    chunks                  \* chunks emitted so far

chunkVars == <<ck_pc, ck_data, font_size_levels, current_chapter, current_section,
               current_subsection, current_subsubsection, current_chunk, chunks>>

VARIABLES
    input_paths,            \* the list ingest passes to process_documents
    ver,                    \* current content version of each input file
    changes,                \* content changes made so far
    run,                    \* runs of process_documents started so far
    phase,                  \* position of the main thread
    disk,                   \* cache directory: per stem, the content each artifact was made from
    filtered_input_paths,   \* per path: convert, text_processed, table_processed, chunked
    light_files,
    heavy_files,
    fut,                    \* per path: state of its conversion, processing, chunking future
    handled,                \* <<path, stage>>: futures the main thread has consumed
    batch_stats,
    batch_chunk_paths,
    batch_table_paths,
    l_out,                  \* what _run_batch returned for the light batch
    h_out,                  \* what _run_batch returned for the heavy batch
    combined_chunks,        \* process_documents' first result
    converted_paths,        \* the files whose conversion returned a handle, in that order
    converted_pdf_stats,    \* process_documents' second result
    unprocessed_files,      \* what ingest reports as files to re-run
    ran,                    \* history: <<path, step>> whose body executed in this run
    writes,                 \* history: <<stem, kind, path>> artifact writes of this run
    prev,                   \* history: the previous run, as seen when this one started
    pipeline_error,         \* where the exception process_documents caught came from, or "none"
    inserted_chunks,        \* what ingest inserted into the vector store in this run
    cli_exit                \* how main of the CLI ended: "ok" or the exception that left it

pipeVars == <<input_paths, ver, changes, run, phase, disk, filtered_input_paths,
              light_files, heavy_files, fut, handled, batch_stats, batch_chunk_paths,
              batch_table_paths, l_out, h_out, combined_chunks, converted_paths, converted_pdf_stats,
              unprocessed_files, ran, writes, prev, pipeline_error, inserted_chunks,
              cli_exit>>

VARIABLES
    f_pc,       \* the stage the file is at: "conv", "proc", "chunk", or "end"
    f_disk0,    \* the cache directory as process_documents finds it
    f_disk,     \* the cache directory
    f_stats,    \* filtered_input_paths[path]
    f_ret,      \* what each stage function returned: "none" until it is called
    f_ran,      \* the steps whose body executed
    f_wrote,    \* the artifact kinds written, by step
    f_res       \* history: what happened inside each stage function

fileVars == <<f_pc, f_disk0, f_disk, f_stats, f_ret, f_ran, f_wrote, f_res>>

VARIABLES
    p_heavy,    \* the batch is the heavy one
    p_n,        \* len(batch_paths); its files are 1..p_n
    p_loop,     \* where the main thread of _run_batch is: "A", "B", "C", "D", "end"
    p_fut,      \* the future of each file at each stage
    p_handled,  \* the futures the as_completed loops have consumed
    p_pools     \* the three executors of the with block have been created

poolVars == <<p_heavy, p_n, p_loop, p_fut, p_handled, p_pools>>

VARIABLES
    tx_pc,              \* "loop": process_text reads the texts, "done": it has written
    toc_headers,        \* the ToC of the PDF, <<>> when there is none
    tx_texts,           \* converted_doc.texts read so far
    structured_output,  \* the labeled blocks appended so far
    last_header_level

textVars == <<tx_pc, toc_headers, tx_texts, structured_output, last_header_level>>

VARIABLES
    SESSION,        \* the module global of llm_utils
    session_calls   \* history: the arguments of the create_llm_session calls so far

sessionVars == <<SESSION, session_calls>>

VARIABLES
    cd_pc,          \* "in": the artifacts are on disk, "out": the call has returned
    txt_data,       \* the chunk artifact: a list of chunks
    tab_data,       \* the table artifact: the tables kept, in the order of the dict
    combined_docs   \* what create_chunk_documents returns

docsVars == <<cd_pc, txt_data, tab_data, combined_docs>>

VARIABLES
    j_sem,          \* the value of each semaphore: its free slots
    j_log,          \* history: one record per POST /v1/documents, in arrival order
    j_overrelease   \* a release found its BoundedSemaphore full (ValueError)

jobVars == <<j_sem, j_log, j_overrelease>>

VARIABLES
    c_free,     \* the value of concurrency_limiter: its free slots
    c_reqs      \* history: one record per chat request, in arrival order

chatVars == <<c_free, c_reqs>>

VARIABLES
    s_pc,            \* "in": the inputs of search_only are drawn, "out": it has returned
    s_use_reranker,
    s_top_r,
    s_ranked,        \* the documents search_only ranks, best first, each with its score
    s_out            \* what search_only returned

searchVars == <<s_pc, s_use_reranker, s_top_r, s_ranked, s_out>>

vars == <<splitVars, tableVars, chunkVars, pipeVars, fileVars, poolVars, textVars, sessionVars, docsVars, jobVars, chatVars, searchVars>>

SplitFrame == UNCHANGED <<tableVars, chunkVars, pipeVars, fileVars, poolVars, textVars, sessionVars, docsVars, jobVars, chatVars, searchVars>>
TableFrame == UNCHANGED <<splitVars, chunkVars, pipeVars, fileVars, poolVars, textVars, sessionVars, docsVars, jobVars, chatVars, searchVars>>
ChunkFrame == UNCHANGED <<splitVars, tableVars, pipeVars, fileVars, poolVars, textVars, sessionVars, docsVars, jobVars, chatVars, searchVars>>
PipeFrame == UNCHANGED <<splitVars, tableVars, chunkVars, fileVars, poolVars, textVars, sessionVars, docsVars, jobVars, chatVars, searchVars>>
FileFrame == UNCHANGED <<splitVars, tableVars, chunkVars, pipeVars, poolVars, textVars, sessionVars, docsVars, jobVars, chatVars, searchVars>>
PoolFrame == UNCHANGED <<splitVars, tableVars, chunkVars, pipeVars, fileVars, textVars, sessionVars, docsVars, jobVars, chatVars, searchVars>>
TextFrame == UNCHANGED <<splitVars, tableVars, chunkVars, pipeVars, fileVars, poolVars, sessionVars, docsVars, jobVars, chatVars, searchVars>>
SessionFrame == UNCHANGED <<splitVars, tableVars, chunkVars, pipeVars, fileVars, poolVars, textVars, docsVars, jobVars, chatVars, searchVars>>
DocsFrame == UNCHANGED <<splitVars, tableVars, chunkVars, pipeVars, fileVars, poolVars, textVars, sessionVars, jobVars, chatVars, searchVars>>
JobFrame == UNCHANGED <<splitVars, tableVars, chunkVars, pipeVars, fileVars, poolVars, textVars, sessionVars, docsVars, chatVars, searchVars>>
ChatFrame == UNCHANGED <<splitVars, tableVars, chunkVars, pipeVars, fileVars, poolVars, textVars, sessionVars, docsVars, jobVars, searchVars>>
SearchFrame == UNCHANGED <<splitVars, tableVars, chunkVars, pipeVars, fileVars, poolVars, textVars, sessionVars, docsVars, jobVars, chatVars>>

(* ------------------------------------------------------------------ *)
(* Helpers                                                             *)
(* ------------------------------------------------------------------ *)
SeqsUpTo(S, n) == UNION {[1..k -> S] : k \in 0..n}

RECURSIVE SumTokens(_, _)
SumTokens(tokens, chunk) ==
    IF chunk = <<>> THEN 0
    ELSE tokens[Head(chunk)] + SumTokens(tokens, Tail(chunk))

(* ------------------------------------------------------------------ *)
(* split_text_into_token_chunks                                        *)
(* ------------------------------------------------------------------ *)
\* count_tokens(sentence): length of the tokenizer's reply for the sentence
count_tokens(tokens, s) == tokens[s]

\* The iteration that starts the next sub-chunk without the sentence that did
\* not fit: the mutant of SplitIteration
SplitIteration_DropsOverflow(tokens, max_tokens, overlap, s, st) ==
    LET token_len == count_tokens(tokens, s)
        exceeds == st.cnt + token_len > max_tokens
    IN IF exceeds
       THEN [cur |-> <<>>, cnt |-> 0, out |-> Append(st.out, st.cur)]
       ELSE [cur |-> Append(st.cur, s), cnt |-> st.cnt + token_len, out |-> st.out]

\* One iteration of `for sentence in sentences`, on the loop state
\* [cur: current_chunk, cnt: current_token_count, out: chunks].
SplitIteration(tokens, max_tokens, overlap, s, st) ==
    LET token_len == count_tokens(tokens, s)
        exceeds == st.cnt + token_len > max_tokens
        keep == overlap > 0 /\ Len(st.cur) > 0
        out1 == IF exceeds THEN Append(st.out, st.cur) ELSE st.out
        cur1 == IF ~exceeds THEN st.cur
                ELSE IF keep THEN <<st.cur[Len(st.cur)]>> ELSE <<>>
        cnt1 == IF ~exceeds THEN st.cnt
                ELSE IF keep THEN count_tokens(tokens, st.cur[Len(st.cur)]) ELSE 0
    IN [cur |-> Append(cur1, s), cnt |-> cnt1 + token_len, out |-> out1]

RECURSIVE SplitLoop(_, _, _, _, _)
SplitLoop(tokens, max_tokens, overlap, s, st) ==
    IF s > Len(tokens) THEN st
    ELSE SplitLoop(tokens, max_tokens, overlap, s + 1,
                   SplitIteration(tokens, max_tokens, overlap, s, st))

split_text_into_token_chunks(tokens, max_tokens, overlap) ==
    LET st == SplitLoop(tokens, max_tokens, overlap, 1,
                        [cur |-> <<>>, cnt |-> 0, out |-> <<>>])
    IN IF st.cur # <<>> THEN Append(st.out, st.cur) ELSE st.out

\* flush_chunk's call: split_text_into_token_chunks(content, emb_endpoint, max_tokens=max_tokens)
FlushSplit(tokens, max_tokens) ==
    split_text_into_token_chunks(tokens, max_tokens, DEFAULT_OVERLAP)

(* ------------------------------------------------------------------ *)
(* SpecSplit: the splitter on bounded inputs                           *)
(* ------------------------------------------------------------------ *)
SplitIdle ==
    /\ sp_pc = "idle"
    /\ sp_tokens = <<>>
    /\ sp_max = 0
    /\ sp_overlap = 0
    /\ sp_via = "none"
    /\ sp_chunks = <<>>

SplitInit ==
    /\ sp_pc = "in"
    /\ sp_tokens \in SeqsUpTo(1..MaxTokenLen, MaxSentences)
    /\ sp_max \in 1..MaxBudget
    /\ sp_overlap \in {0, DEFAULT_OVERLAP}
    /\ sp_via = "none"
    /\ sp_chunks = <<>>

\* flush_chunk on a buffer whose stripped content is not empty
FlushCall ==
    /\ sp_pc = "in"
    /\ sp_tokens # <<>>
    /\ sp_overlap = DEFAULT_OVERLAP
    /\ sp_chunks' = FlushSplit(sp_tokens, sp_max)
    /\ sp_via' = "flush_chunk"
    /\ sp_pc' = "out"
    /\ UNCHANGED <<sp_tokens, sp_max, sp_overlap>>
    /\ SplitFrame

\* split_text_into_token_chunks called with an explicit overlap
DirectCall ==
    /\ sp_pc = "in"
    /\ sp_chunks' = split_text_into_token_chunks(sp_tokens, sp_max, sp_overlap)
    /\ sp_via' = "direct"
    /\ sp_pc' = "out"
    /\ UNCHANGED <<sp_tokens, sp_max, sp_overlap>>
    /\ SplitFrame

SplitNext == FlushCall \/ DirectCall

(* ------------------------------------------------------------------ *)
(* SpecTable: process_table, summarize_table, classify_text_with_llm   *)
(* ------------------------------------------------------------------ *)
Min(a, b) == IF a <= b THEN a ELSE b

NO_SUMMARY == "No summary."

TableIdle ==
    /\ tb_pc = "idle"
    /\ tb_n = 0
    /\ tb_summaries = <<>>
    /\ tb_decisions = <<>>
    /\ tb_i = 1
    /\ tb_failed = {}
    /\ tb_sum_failed = {}
    /\ tb_out = "unwritten"

\* process_table entered with a converted document of tb_n tables
TableInit ==
    /\ tb_pc = "process_table"
    /\ tb_n \in 0..MaxTables
    /\ tb_summaries = <<>>
    /\ tb_decisions = <<>>
    /\ tb_i = 1
    /\ tb_failed = {}
    /\ tb_sum_failed = {}
    /\ tb_out = "unwritten"

\* if not converted_doc.tables: write {} and return
ProcessTableEmpty ==
    /\ tb_pc = "process_table"
    /\ tb_n = 0
    /\ tb_out' = <<>>
    /\ tb_pc' = "done"
    /\ UNCHANGED <<tb_n, tb_summaries, tb_decisions, tb_i, tb_failed, tb_sum_failed>>
    /\ TableFrame

\* process_table renders the tables and calls summarize_and_classify_tables,
\* which summarizes every table and then classifies every table
SummarizeAndClassifyCall ==
    /\ tb_pc = "process_table"
    /\ tb_n > 0
    /\ tb_summaries' = [i \in 1..tb_n |-> "None"]
    /\ tb_pc' = "summarize_table"
    /\ UNCHANGED <<tb_n, tb_decisions, tb_i, tb_failed, tb_sum_failed, tb_out>>
    /\ TableFrame

\* summarize_single_table(prompt of table i): the reply, or the placeholder on any error
summarize_single_table(i, ok) == IF ok THEN <<"reply", i>> ELSE NO_SUMMARY

\* summarize_table appending each result as its future completes
StoreSummary_Append(summaries, idx, value) ==
    LET first == CHOOSE j \in 1..Len(summaries) :
                     /\ summaries[j] = "None"
                     /\ \A k \in 1..(j - 1) : summaries[k] # "None"
    IN [summaries EXCEPT ![first] = value]

\* summaries[idx] = future.result(), idx = futures[future]
StoreSummary(summaries, idx, value) == [summaries EXCEPT ![idx] = value]

\* summarize_table: the future of table i completes (in any order) and is
\* stored at its own index; the call returns once every future is collected
SummarizeCollect(i) ==
    /\ tb_pc = "summarize_table"
    /\ tb_summaries[i] = "None"
    /\ \E ok \in BOOLEAN :
          /\ tb_summaries' = StoreSummary(tb_summaries, i, summarize_single_table(i, ok))
          /\ tb_sum_failed' = IF ok THEN tb_sum_failed ELSE tb_sum_failed \cup {i}
    /\ tb_pc' = IF \A j \in 1..tb_n : j # i => tb_summaries[j] # "None"
                THEN "classify_text_with_llm" ELSE "summarize_table"
    /\ UNCHANGED <<tb_n, tb_decisions, tb_i, tb_failed, tb_out>>
    /\ TableFrame

\* The decisions one batch appends: one per returned choice when the request
\* succeeds, a single True when it fails
BatchDecisions(ok, reply) == IF ok THEN reply ELSE <<TRUE>>

\* classify_text_with_llm: one iteration of the loop over batches of batch_size prompts
ClassifyBatch ==
    /\ tb_pc = "classify_text_with_llm"
    /\ tb_i <= tb_n
    /\ LET last == Min(tb_i + CLASSIFY_BATCH_SIZE - 1, tb_n)
           size == last - tb_i + 1
       IN \E ok \in BOOLEAN : \E reply \in [1..size -> BOOLEAN] :
            /\ ok \/ \A k \in 1..size : reply[k]
            /\ tb_decisions' = tb_decisions \o BatchDecisions(ok, reply)
            /\ tb_failed' = IF ok THEN tb_failed ELSE tb_failed \cup {tb_i}
    /\ tb_i' = tb_i + CLASSIFY_BATCH_SIZE
    /\ tb_pc' = IF tb_i + CLASSIFY_BATCH_SIZE <= tb_n
                THEN "classify_text_with_llm" ELSE "write"
    /\ UNCHANGED <<tb_n, tb_summaries, tb_sum_failed, tb_out>>
    /\ TableFrame

\* zip(decisions, table_htmls, table_captions_list, table_summaries): stops at the shortest
ZipLen(decisions, n, summaries) == Min(Len(decisions), Min(n, Len(summaries)))

\* filtered_table_dicts: the zipped entries whose decision is True
FilteredTables(decisions, n, summaries) ==
    [idx \in {j \in 1..ZipLen(decisions, n, summaries) : decisions[j]} |->
        [html |-> idx, caption |-> idx, summary |-> summaries[idx]]]

\* process_table after summarize_and_classify_tables returned: filter and write the artifact
ProcessTableWrite ==
    /\ tb_pc = "write"
    /\ tb_out' = FilteredTables(tb_decisions, tb_n, tb_summaries)
    /\ tb_pc' = "done"
    /\ UNCHANGED <<tb_n, tb_summaries, tb_decisions, tb_i, tb_failed, tb_sum_failed>>
    /\ TableFrame

TableNext ==
    \/ ProcessTableEmpty
    \/ SummarizeAndClassifyCall
    \/ \E i \in 1..tb_n : SummarizeCollect(i)
    \/ ClassifyBatch
    \/ ProcessTableWrite

(* ------------------------------------------------------------------ *)
(* SpecChunk: chunk_single_file over the blocks process_text wrote     *)
(* ------------------------------------------------------------------ *)
\* A block of the text artifact, with the keys process_text writes:
\* label, text, page, font_size.  The text is held as the number of leading
\* '#' marks (md), the title that follows them, and the token length of the
\* one sentence the block contributes to a buffer.
None == "None"
NoFont == 0
FontSizes == {10, 12}
Pages == {1, 2}

HeaderBlocks ==
    [label : {"section_header"}, md : 1..4, font_size : {NoFont}, page : {1}, tokens : {1}]
    \cup [label : {"section_header"}, md : {0}, font_size : FontSizes \cup {NoFont},
          page : {1}, tokens : {1}]

\* one-token sentences on either page, a two-token sentence, and a text block
\* whose text is empty (tokens 0: it adds no sentence to the content)
ContentBlocks ==
    [label : {"text"}, md : {0}, font_size : {NoFont}, page : Pages, tokens : {1}]
    \cup [label : {"formula"}, md : {0}, font_size : {NoFont}, page : {1}, tokens : {2}]
    \cup [label : {"text"}, md : {0}, font_size : {NoFont}, page : {2}, tokens : {0}]

OtherBlocks ==
    [label : {"table"}, md : {0}, font_size : {NoFont}, page : {1}, tokens : {1}]

RECURSIVE SortedSeq(_)
SortedSeq(S) ==
    IF S = {} THEN <<>>
    ELSE LET m == CHOOSE x \in S : \A y \in S : x <= y
         IN <<m>> \o SortedSeq(S \ {m})

Range(f) == {f[i] : i \in DOMAIN f}

Reverse(q) == [i \in 1..Len(q) |-> q[Len(q) + 1 - i]]

\* collect_header_font_sizes: distinct non-null header font sizes, descending
collect_header_font_sizes(elements) ==
    Reverse(SortedSeq({elements[i].font_size : i \in
        {j \in DOMAIN elements : /\ elements[j].label = "section_header"
                                 /\ elements[j].font_size # NoFont}}))

IndexOf(q, x) == CHOOSE i \in 1..Len(q) : q[i] = x

\* get_header_level: markdown marks first, then the font-size rank, and
\* len(sorted_font_sizes) for a font size that is not ranked
get_header_level(block, sorted_font_sizes) ==
    IF block.md > 0 THEN block.md
    ELSE IF block.font_size \in Range(sorted_font_sizes)
         THEN IndexOf(sorted_font_sizes, block.font_size)
         ELSE Len(sorted_font_sizes)

\* block.get("prov", {})[0].get("page_no") inside try/except: page_no = 0
\* when the block has no "prov" list
BlockPageNo(block) ==
    IF "prov" \in DOMAIN block THEN block.prov[1].page_no ELSE 0

Titles(ch, se, su, ss) ==
    [chapter_title |-> ch, section_title |-> se,
     subsection_title |-> su, subsubsection_title |-> ss]

EmptyChunk(ch, se, su, ss) ==
    [chapter_title |-> ch, section_title |-> se, subsection_title |-> su,
     subsubsection_title |-> ss, content |-> <<>>, page_range |-> <<>>,
     source_nodes |-> <<>>]

\* HeaderState with the level-1 and level-2 resets of the lower levels left out
HeaderState_NoReset(level, full_title, ch, se, su, ss) ==
    IF level = 1 THEN Titles(full_title, se, su, ss)
    ELSE IF level = 2 THEN Titles(ch, full_title, su, ss)
    ELSE IF level = 3 THEN Titles(ch, se, full_title, None)
    ELSE Titles(ch, se, su, full_title)

\* The header state after a section_header of the given level and title
HeaderState(level, full_title, ch, se, su, ss) ==
    IF level = 1 THEN Titles(full_title, None, None, None)
    ELSE IF level = 2 THEN Titles(ch, full_title, None, None)
    ELSE IF level = 3 THEN Titles(ch, se, full_title, None)
    ELSE Titles(ch, se, su, full_title)

\* current_chunk["content"].strip(), as the blocks whose text is not empty
Stripped(content, data) ==
    LET nonempty(i) == data[i].tokens > 0
    IN SelectSeq(content, nonempty)

\* The chunk with part_id attached whatever the number of parts: the mutant
\* of WithPartId
WithPartId_Always(chunk, n, i) ==
    [chapter_title |-> chunk.chapter_title,
     section_title |-> chunk.section_title,
     subsection_title |-> chunk.subsection_title,
     subsubsection_title |-> chunk.subsubsection_title,
     content |-> chunk.content,
     page_range |-> chunk.page_range,
     source_nodes |-> chunk.source_nodes,
     part_id |-> i]

\* if len(token_chunks) > 1: chunk["part_id"] = i + 1, for the i-th part of n
WithPartId(chunk, n, i) ==
    IF n > 1
    THEN [chapter_title |-> chunk.chapter_title,
          section_title |-> chunk.section_title,
          subsection_title |-> chunk.subsection_title,
          subsubsection_title |-> chunk.subsubsection_title,
          content |-> chunk.content,
          page_range |-> chunk.page_range,
          source_nodes |-> chunk.source_nodes,
          part_id |-> i]
    ELSE chunk

\* The chunks flush_chunk appends for a buffer: one per sub-chunk of the
\* split, part_id only when there are several
FlushedChunks(buf, data, max_tokens) ==
    LET sentences == Stripped(buf.content, data)
        tokens == [k \in 1..Len(sentences) |-> data[sentences[k]].tokens]
        token_chunks == FlushSplit(tokens, max_tokens)
        base(i) == [chapter_title |-> buf.chapter_title,
                    section_title |-> buf.section_title,
                    subsection_title |-> buf.subsection_title,
                    subsubsection_title |-> buf.subsubsection_title,
                    content |-> [k \in 1..Len(token_chunks[i]) |->
                                    sentences[token_chunks[i][k]]],
                    page_range |-> SortedSeq(Range(buf.page_range)),
                    source_nodes |-> buf.source_nodes]
    IN [i \in 1..Len(token_chunks) |-> WithPartId(base(i), Len(token_chunks), i)]

\* flush_chunk: [buf, out] after the call; it returns at once, leaving the
\* buffer as it is, when the stripped content is empty
flush_chunk(buf, out, data, max_tokens) ==
    IF Stripped(buf.content, data) = <<>> THEN [buf |-> buf, out |-> out]
    ELSE [buf |-> EmptyChunk("", "", "", ""),
          out |-> out \o FlushedChunks(buf, data, max_tokens)]

ChunkIdle ==
    /\ ck_pc = "idle"
    /\ ck_data = <<>>
    /\ font_size_levels = <<>>
    /\ current_chapter = None
    /\ current_section = None
    /\ current_subsection = None
    /\ current_subsubsection = None
    /\ current_chunk = EmptyChunk(None, None, None, None)
    /\ chunks = <<>>

\* chunk_single_file up to the loop: the file's header font sizes are known
\* from the whole artifact, the blocks are then read one by one
ChunkInit ==
    /\ ck_pc = "loop"
    /\ ck_data = <<>>
    /\ font_size_levels \in {Reverse(SortedSeq(S)) : S \in SUBSET FontSizes}
    /\ current_chapter = None
    /\ current_section = None
    /\ current_subsection = None
    /\ current_subsubsection = None
    /\ current_chunk = EmptyChunk(None, None, None, None)
    /\ chunks = <<>>

\* if label == "section_header"
ChunkHeader(block) ==
    /\ ck_pc = "loop"
    /\ Len(ck_data) < MaxBlocks
    /\ block \in HeaderBlocks
    /\ block.font_size \in Range(font_size_levels) \cup {NoFont}
    /\ LET idx == Len(ck_data) + 1
           level == get_header_level(block, font_size_levels)
           st == HeaderState(level, ToString(idx), current_chapter, current_section,
                             current_subsection, current_subsubsection)
           fl == flush_chunk(current_chunk, chunks, ck_data, ChunkBudget)
       IN /\ ck_data' = Append(ck_data, block)
          /\ current_chapter' = st.chapter_title
          /\ current_section' = st.section_title
          /\ current_subsection' = st.subsection_title
          /\ current_subsubsection' = st.subsubsection_title
          /\ chunks' = fl.out
          /\ current_chunk' = [fl.buf EXCEPT
                                 !.chapter_title = st.chapter_title,
                                 !.section_title = st.section_title,
                                 !.subsection_title = st.subsection_title,
                                 !.subsubsection_title = st.subsubsection_title]
    /\ UNCHANGED <<ck_pc, font_size_levels>>
    /\ ChunkFrame

Backfill(field, current) == IF field = None THEN current ELSE field

\* elif label in {"text", "list_item", "code", "formula"}
ChunkContent(block) ==
    /\ ck_pc = "loop"
    /\ Len(ck_data) < MaxBlocks
    /\ block \in ContentBlocks
    /\ LET idx == Len(ck_data) + 1
       IN /\ ck_data' = Append(ck_data, block)
          /\ current_chunk' =
                [chapter_title |-> Backfill(current_chunk.chapter_title, current_chapter),
                 section_title |-> Backfill(current_chunk.section_title, current_section),
                 subsection_title |->
                     Backfill(current_chunk.subsection_title, current_subsection),
                 subsubsection_title |->
                     Backfill(current_chunk.subsubsection_title, current_subsubsection),
                 content |-> Append(current_chunk.content, idx),
                 page_range |-> Append(current_chunk.page_range, BlockPageNo(block)),
                 source_nodes |-> Append(current_chunk.source_nodes, idx)]
    /\ UNCHANGED <<ck_pc, font_size_levels, current_chapter, current_section,
                   current_subsection, current_subsubsection, chunks>>
    /\ ChunkFrame

\* else: the label is skipped
ChunkSkip(block) ==
    /\ ck_pc = "loop"
    /\ Len(ck_data) < MaxBlocks
    /\ block \in OtherBlocks
    /\ ck_data' = Append(ck_data, block)
    /\ UNCHANGED <<ck_pc, font_size_levels, current_chapter, current_section,
                   current_subsection, current_subsubsection, current_chunk, chunks>>
    /\ ChunkFrame

\* End of the loop: flush the remaining content and save the chunks.  The
\* blocks read are a whole artifact when its header font sizes are exactly
\* font_size_levels.
ChunkSave ==
    /\ ck_pc = "loop"
    /\ collect_header_font_sizes(ck_data) = font_size_levels
    /\ LET fl == flush_chunk(current_chunk, chunks, ck_data, ChunkBudget)
       IN /\ chunks' = fl.out
          /\ current_chunk' = fl.buf
    /\ ck_pc' = "done"
    /\ UNCHANGED <<ck_data, font_size_levels, current_chapter, current_section,
                   current_subsection, current_subsubsection>>
    /\ ChunkFrame

ChunkNext ==
    \/ \E block \in HeaderBlocks : ChunkHeader(block)
    \/ \E block \in ContentBlocks : ChunkContent(block)
    \/ \E block \in OtherBlocks : ChunkSkip(block)
    \/ ChunkSave

(* ------------------------------------------------------------------ *)
(* Spec: process_documents and ingest, run after run                   *)
(* ------------------------------------------------------------------ *)
\* Input files.  Two of them share a file stem; one is a heavy PDF.
AllPaths == {"a/x.pdf", "b/x.pdf", "c/y.pdf", "d/z.pdf"}
Stems == {"x", "y", "z"}
Kinds == {"checksum", "json", "text", "table", "chunk"}

\* Path(path).stem
Stem(path) ==
    IF path \in {"a/x.pdf", "b/x.pdf"} THEN "x"
    ELSE IF path = "c/y.pdf" THEN "y" ELSE "z"

InputLists ==
    {<<>>, <<"a/x.pdf", "c/y.pdf">>, <<"a/x.pdf", "b/x.pdf">>, <<"a/x.pdf", "d/z.pdf">>}

\* The pages of each file, and whether pdfium can open it: one file is just
\* under the threshold, one is exactly on it, one is long and cannot be opened
PdfPages(path) ==
    CASE path = "a/x.pdf" -> 10
      [] path = "b/x.pdf" -> 499
      [] path = "c/y.pdf" -> 600
      [] OTHER -> 500
Readable(path) == path # "c/y.pdf"

\* get_pdf_page_count: len(pdf), or 0 when opening the file raises
get_pdf_page_count(path) == IF Readable(path) THEN PdfPages(path) ELSE 0

\* The partition test with a strict comparison: the mutant of IsHeavy
IsHeavy_Strict(path) == get_pdf_page_count(path) > HEAVY_PDF_PAGE_THRESHOLD

\* pg_count >= HEAVY_PDF_PAGE_THRESHOLD
IsHeavy(path) == get_pdf_page_count(path) >= HEAVY_PDF_PAGE_THRESHOLD

\* An artifact is held as the file content it was made from; NoFile: it does not exist
NoFile == [path |-> "", ver |-> 0]
\* A file that a failed write left cut short: it exists and does not parse
Corrupt == [path |-> "partial", ver |-> 0]

\* generate_file_checksum: a hash of the file's current content
generate_file_checksum(path, v) == [path |-> path, ver |-> v[path]]

\* No future of any stage; page_count and table_count are the counts a process
\* future returned, held as the content they were counted from (NoFile: 0)
NoFutures ==
    [q \in AllPaths |-> [conv |-> "none", proc |-> "none", chunk |-> "none",
                         page_count |-> NoFile, table_count |-> NoFile]]
\* A stats entry: the keys it has (timings and counts) and the two counts
NoEntry == [keys |-> {}, page_count |-> NoFile, table_count |-> NoFile]
NoStats == [q \in AllPaths |-> NoEntry]
NoBatchOut == [stats |-> NoStats, chunk_paths |-> {}, table_paths |-> {}]
NoPrev == [ver0 |-> [q \in AllPaths |-> 0], pver |-> [q \in AllPaths |-> 0],
           pfailed |-> {}, pdone |-> {},
           disk0 |-> [st \in Stems |-> [k \in Kinds |-> NoFile]]]

\* ChangeFlags that trusts a matching checksum without looking for the
\* converted document
ChangeFlags_ChecksumOnly(path, d, v) ==
    LET f == d[Stem(path)]
    IN IF f["checksum"] = NoFile \/ f["checksum"] # generate_file_checksum(path, v)
       THEN [convert |-> TRUE, text_processed |-> FALSE,
             table_processed |-> FALSE, chunked |-> FALSE]
       ELSE [convert |-> FALSE,
             text_processed |-> f["text"] # NoFile,
             table_processed |-> f["table"] # NoFile,
             chunked |-> f["chunk"] # NoFile]

\* process_documents, first loop: the flags of one path
ChangeFlags(path, d, v) ==
    LET f == d[Stem(path)]
    IN IF f["checksum"] = NoFile \/ f["checksum"] # generate_file_checksum(path, v)
       THEN [convert |-> TRUE, text_processed |-> FALSE,
             table_processed |-> FALSE, chunked |-> FALSE]
       ELSE [convert |-> f["json"] = NoFile,
             text_processed |-> f["text"] # NoFile,
             table_processed |-> f["table"] # NoFile,
             chunked |-> f["chunk"] # NoFile]

\* process_documents, second loop: the checksum files written, in list order
RECURSIVE WriteChecksums(_, _, _, _)
WriteChecksums(paths, flags, d, v) ==
    IF paths = <<>> THEN d
    ELSE LET path == Head(paths)
             d1 == IF flags[path].convert
                   THEN [d EXCEPT ![Stem(path)]["checksum"] =
                                      generate_file_checksum(path, v)]
                   ELSE d
         IN WriteChecksums(Tail(paths), flags, d1, v)

PipeIdle ==
    /\ input_paths = <<>>
    /\ ver = [q \in AllPaths |-> 0]
    /\ changes = 0
    /\ run = 0
    /\ phase = "off"
    /\ disk = [st \in Stems |-> [k \in Kinds |-> NoFile]]
    /\ filtered_input_paths = <<>>
    /\ light_files = {}
    /\ heavy_files = {}
    /\ fut = NoFutures
    /\ handled = {}
    /\ batch_stats = NoStats
    /\ batch_chunk_paths = {}
    /\ batch_table_paths = {}
    /\ l_out = NoBatchOut
    /\ h_out = NoBatchOut
    /\ combined_chunks = <<>>
    /\ converted_paths = <<>>
    /\ converted_pdf_stats = NoStats
    /\ unprocessed_files = {}
    /\ ran = {}
    /\ writes = {}
    /\ prev = NoPrev
    /\ pipeline_error = "none"
    /\ inserted_chunks = <<>>
    /\ cli_exit = "none"

\* An empty cache directory and a directory of PDF files to ingest
PipeInit ==
    /\ input_paths \in InputLists
    /\ ver = [q \in AllPaths |-> 0]
    /\ changes = 0
    /\ run = 0
    /\ phase = "idle"
    /\ disk = [st \in Stems |-> [k \in Kinds |-> NoFile]]
    /\ filtered_input_paths = <<>>
    /\ light_files = {}
    /\ heavy_files = {}
    /\ fut = NoFutures
    /\ handled = {}
    /\ batch_stats = NoStats
    /\ batch_chunk_paths = {}
    /\ batch_table_paths = {}
    /\ l_out = NoBatchOut
    /\ h_out = NoBatchOut
    /\ combined_chunks = <<>>
    /\ converted_paths = <<>>
    /\ converted_pdf_stats = NoStats
    /\ unprocessed_files = {}
    /\ ran = {}
    /\ writes = {}
    /\ prev = NoPrev
    /\ pipeline_error = "none"
    /\ inserted_chunks = <<>>
    /\ cli_exit = "none"

\* The file's content is replaced between two runs
ContentChange(path) ==
    /\ phase = "reported"
    /\ run < MaxRuns
    /\ changes < MaxChanges
    /\ path \in Range(input_paths)
    /\ ver' = [ver EXCEPT ![path] = @ + 1]
    /\ changes' = changes + 1
    /\ UNCHANGED <<input_paths, run, phase, disk, filtered_input_paths, light_files,
                   heavy_files, fut, handled, batch_stats, batch_chunk_paths,
                   batch_table_paths, l_out, h_out, combined_chunks, converted_paths,
                   converted_pdf_stats, unprocessed_files, ran, writes, prev,
                   pipeline_error, inserted_chunks, cli_exit>>
    /\ PipeFrame

\* A stats entry made in loop B holds "timings" only; loop C adds page_count
\* and table_count
HasPageCount(entry) == "page_count" \in entry.keys

\* main of the CLI once ingest has returned; none: ingest returned no stats
\* map.  It iterates the map and indexes every entry with "page_count"
main(none, stats) ==
    IF none THEN "TypeError"
    ELSE IF \E q \in AllPaths : stats[q].keys # {} /\ ~HasPageCount(stats[q])
         THEN "KeyError"
    ELSE "ok"

\* ingest with no supported file in the directory: it returns before
\* process_documents, and main goes on with what it returned
IngestNoDocuments ==
    /\ phase = "idle"
    /\ input_paths = <<>>
    /\ run < MaxRuns
    /\ run' = run + 1
    /\ cli_exit' = main(TRUE, converted_pdf_stats)
    /\ UNCHANGED <<input_paths, ver, changes, phase, disk, filtered_input_paths,
                   light_files, heavy_files, fut, handled, batch_stats,
                   batch_chunk_paths, batch_table_paths, l_out, h_out, combined_chunks, converted_paths,
                   converted_pdf_stats, unprocessed_files, ran, writes, prev,
                   pipeline_error, inserted_chunks>>
    /\ PipeFrame

\* process_documents up to the first _run_batch: flags, checksum files, partition
ProcessDocuments ==
    /\ phase \in {"idle", "reported"}
    /\ input_paths # <<>>
    /\ run < MaxRuns
    /\ LET files == Range(input_paths)
           flags == [path \in files |-> ChangeFlags(path, disk, ver)]
       IN /\ filtered_input_paths' = flags
          /\ disk' = WriteChecksums(input_paths, flags, disk, ver)
          /\ writes' = {<<Stem(path), "checksum", path>> :
                            path \in {q \in files : flags[q].convert}}
          /\ light_files' = {q \in files : ~IsHeavy(q)}
          /\ heavy_files' = {q \in files : IsHeavy(q)}
    /\ run' = run + 1
    /\ phase' = "light_enter"
    /\ fut' = NoFutures
    /\ handled' = {}
    /\ batch_stats' = NoStats
    /\ batch_chunk_paths' = {}
    /\ batch_table_paths' = {}
    /\ l_out' = NoBatchOut
    /\ h_out' = NoBatchOut
    /\ combined_chunks' = <<>>
    /\ converted_paths' = <<>>
    /\ converted_pdf_stats' = NoStats
    /\ unprocessed_files' = {}
    /\ ran' = {}
    /\ prev' = [ver0 |-> ver, pver |-> prev.ver0,
                pfailed |-> {q \in AllPaths : \E stage \in {"conv", "proc", "chunk"} :
                                fut[q][stage] \in {"null", "raise"}},
                pdone |-> {q \in AllPaths : fut[q].chunk = "ok"},
                disk0 |-> disk]
    /\ pipeline_error' = "none"
    /\ inserted_chunks' = <<>>
    /\ cli_exit' = "none"
    /\ UNCHANGED <<input_paths, ver, changes>>
    /\ PipeFrame

\* The conversion pool of the heavy batch sized as the light one's: the mutant
\* of ConvertWorkers
ConvertWorkers_Same(heavy, n) == Min(WORKER_SIZE, n)

\* convert_worker of a batch of n files: worker_size for the light batch,
\* convert_worker_size for the heavy one
ConvertWorkers(heavy, n) ==
    IF heavy THEN Min(HEAVY_PDF_CONVERT_WORKER_SIZE, n) ELSE Min(WORKER_SIZE, n)

\* max_worker of a batch of n files: worker_size
MaxWorkers(n) == Min(WORKER_SIZE, n)

InLight == phase \in {"light_enter", "light_run"}
Running == phase \in {"light_run", "heavy_run"}
batch_paths == IF InLight THEN light_files ELSE heavy_files

\* The pool sizes process_documents passes to _run_batch
convert_worker == ConvertWorkers(~InLight, Cardinality(batch_paths))
max_worker == MaxWorkers(Cardinality(batch_paths))

\* The futures of the running batch, by stage: in a worker, done, submitted
InFlight(stage) == {q \in batch_paths : fut[q][stage] = "running"}
Completed(stage) == {q \in batch_paths : fut[q][stage] \in {"ok", "null", "raise"}}
Submitted(stage) == {q \in batch_paths : fut[q][stage] # "none"}

\* The as_completed loop over the futures of a stage has consumed them all
LoopOver(stage) == \A q \in Submitted(stage) : <<q, stage>> \in handled

\* _run_batch on an empty batch: returns at once, no pool is created
RunBatchEmpty ==
    /\ phase \in {"light_enter", "heavy_enter"}
    /\ batch_paths = {}
    /\ IF InLight THEN l_out' = NoBatchOut /\ UNCHANGED h_out
                  ELSE h_out' = NoBatchOut /\ UNCHANGED l_out
    /\ phase' = IF InLight THEN "heavy_enter" ELSE "merge"
    /\ UNCHANGED <<input_paths, ver, changes, run, disk, filtered_input_paths,
                   light_files, heavy_files, fut, handled, batch_stats,
                   batch_chunk_paths, batch_table_paths, combined_chunks, converted_paths,
                   converted_pdf_stats, unprocessed_files, ran, writes, prev,
                   pipeline_error, inserted_chunks, cli_exit>>
    /\ PipeFrame

\* A. Submit Conversions
SubmitConversions ==
    /\ phase \in {"light_enter", "heavy_enter"}
    /\ batch_paths # {}
    /\ fut' = [q \in AllPaths |->
                 IF q \in batch_paths THEN [fut[q] EXCEPT !.conv = "pending"] ELSE fut[q]]
    /\ phase' = IF InLight THEN "light_run" ELSE "heavy_run"
    /\ UNCHANGED <<input_paths, ver, changes, run, disk, filtered_input_paths,
                   light_files, heavy_files, handled, batch_stats, batch_chunk_paths,
                   batch_table_paths, l_out, h_out, combined_chunks, converted_paths,
                   converted_pdf_stats, unprocessed_files, ran, writes, prev,
                   pipeline_error, inserted_chunks, cli_exit>>
    /\ PipeFrame

\* Creating the pools of a batch or submitting its conversions raises (the
\* operating system refuses a worker process): the exception leaves _run_batch
\* and process_documents returns (None, None)
PipelineError ==
    /\ phase \in {"light_enter", "heavy_enter"}
    /\ batch_paths # {}
    /\ pipeline_error' = "batch"
    /\ phase' = "returned"
    /\ UNCHANGED <<input_paths, ver, changes, run, disk, filtered_input_paths,
                   light_files, heavy_files, fut, handled, batch_stats,
                   batch_chunk_paths, batch_table_paths, l_out, h_out, combined_chunks,
                   converted_paths, converted_pdf_stats, unprocessed_files, ran,
                   writes, prev, inserted_chunks, cli_exit>>
    /\ PipeFrame

\* A worker of the pool of the stage takes a queued task
StartTask(path, stage) ==
    /\ Running
    /\ path \in batch_paths
    /\ fut[path][stage] = "pending"
    /\ Cardinality(InFlight(stage)) < (IF stage = "conv" THEN convert_worker ELSE max_worker)
    /\ fut' = [fut EXCEPT ![path][stage] = "running"]
    /\ UNCHANGED <<input_paths, ver, changes, run, phase, disk, filtered_input_paths,
                   light_files, heavy_files, handled, batch_stats, batch_chunk_paths,
                   batch_table_paths, l_out, h_out, combined_chunks, converted_paths,
                   converted_pdf_stats, unprocessed_files, ran, writes, prev,
                   pipeline_error, inserted_chunks, cli_exit>>
    /\ PipeFrame
\* What a worker function did: its result ("ok", "null": it returned Nones,
\* "raise": the future raises), the cache directory afterwards, the steps
\* whose body ran, the artifact kinds it wrote.
Did(ret, d, steps, wrote) == [ret |-> ret, disk |-> d, steps |-> steps, wrote |-> wrote]

\* convert_document without its except clause: the mutant of convert_document
convert_document_NoCatch(path, stats, d, v, res) ==
    IF ~stats.convert THEN Did("ok", d, {}, {})
    ELSE IF res = "ok"
         THEN Did("ok", [d EXCEPT ![Stem(path)]["json"] = generate_file_checksum(path, v)],
                  {"convert"}, {"json"})
    ELSE IF res = "null_partial"
         THEN Did("raise", [d EXCEPT ![Stem(path)]["json"] = Corrupt], {"convert"}, {"json"})
    ELSE Did("raise", d, {"convert"}, {})

\* convert_document; res is what happens in the worker: "ok", "null" the
\* conversion engine raises, "null_partial" save_as_json raises while writing
\* (both caught by the except clause), "raise" the worker process is lost and
\* the future raises without convert_document returning
convert_document(path, stats, d, v, res) ==
    IF ~stats.convert THEN Did("ok", d, {}, {})
    ELSE IF res = "ok"
         THEN Did("ok", [d EXCEPT ![Stem(path)]["json"] = generate_file_checksum(path, v)],
                  {"convert"}, {"json"})
    ELSE IF res = "null_partial"
         THEN Did("null", [d EXCEPT ![Stem(path)]["json"] = Corrupt], {"convert"}, {"json"})
    ELSE IF res = "null"
         THEN Did("null", d, {"convert"}, {})
    ELSE Did("raise", d, {"convert"}, {})

ConvertOutcomes(stats) ==
    IF stats.convert THEN {"ok", "null", "null_partial", "raise"} ELSE {"ok"}

\* process_converted_document redoing both steps when either artifact is missing
process_converted_document_Both(path, stats, d, res) ==
    LET st == Stem(path)
        json == d[st]["json"]
        d1 == [d EXCEPT ![st]["text"] = json]
        d2 == [d1 EXCEPT ![st]["table"] = json]
    IN IF stats.text_processed /\ stats.table_processed
       THEN Did(IF d[st]["table"] = Corrupt THEN "raise" ELSE "ok", d, {}, {})
       ELSE IF json \in {NoFile, Corrupt} THEN Did("null", d, {}, {})
       ELSE IF res = "ok" THEN Did("ok", d2, {"text", "table"}, {"text", "table"})
       ELSE Did("null", d, {"text"}, {})

\* process_converted_document; res says which step fails, if any, and whether
\* it fails in its write_text ("_partial") or before
process_converted_document(path, stats, d, res) ==
    LET st == Stem(path)
        json == d[st]["json"]
        do_text == ~stats.text_processed
        do_table == ~stats.table_processed
        d1 == IF do_text THEN [d EXCEPT ![st]["text"] = json] ELSE d
        d2 == IF do_table THEN [d1 EXCEPT ![st]["table"] = json] ELSE d1
        text_ran == IF do_text THEN {"text"} ELSE {}
    IN IF stats.text_processed /\ stats.table_processed
       THEN Did(IF d[st]["table"] = Corrupt THEN "raise" ELSE "ok", d, {}, {})
       ELSE IF json \in {NoFile, Corrupt} THEN Did("null", d, {}, {})
       ELSE IF do_text /\ res = "fail_text" THEN Did("null", d, {"text"}, {})
       ELSE IF do_text /\ res = "fail_text_partial"
            THEN Did("null", [d EXCEPT ![st]["text"] = Corrupt], {"text"}, {"text"})
       ELSE IF do_table /\ res = "fail_table"
            THEN Did("null", d1, text_ran \cup {"table"}, text_ran)
       ELSE IF do_table /\ res = "fail_table_partial"
            THEN Did("null", [d1 EXCEPT ![st]["table"] = Corrupt],
                     text_ran \cup {"table"}, text_ran \cup {"table"})
       ELSE Did("ok", d2,
                text_ran \cup (IF do_table THEN {"table"} ELSE {}),
                text_ran \cup (IF do_table THEN {"table"} ELSE {}))

ProcessOutcomes(stats) ==
    IF stats.text_processed /\ stats.table_processed THEN {"ok"}
    ELSE {"ok"}
         \cup (IF stats.text_processed THEN {} ELSE {"fail_text", "fail_text_partial"})
         \cup (IF stats.table_processed THEN {} ELSE {"fail_table", "fail_table_partial"})

\* The timings dict process_converted_document returns with its paths
ProcessTimings(stats) ==
    IF stats.text_processed /\ stats.table_processed THEN {}
    ELSE (IF stats.text_processed THEN {} ELSE {"process_text"})
         \cup (IF stats.table_processed THEN {} ELSE {"process_tables"})

\* The page_count process_converted_document returns: the pages of the PDF
\* itself, or 0 when only the table step ran
ReturnedPageCount(path, stats, v) ==
    IF stats.text_processed /\ ~stats.table_processed THEN NoFile
    ELSE generate_file_checksum(path, v)

\* The table_count it returns: read from the table artifact when both steps are
\* skipped, counted by process_table from the converted document, or 0
ReturnedTableCount(path, stats, d) ==
    IF stats.text_processed /\ stats.table_processed THEN d[Stem(path)]["table"]
    ELSE IF ~stats.table_processed THEN d[Stem(path)]["json"]
    ELSE NoFile

\* chunk_single_file; res is the outcome of reading, chunking and saving:
\* "null" it fails before the save, "null_partial" json.dump fails while writing
chunk_single_file(path, stats, d, res) ==
    LET st == Stem(path)
    IN IF stats.chunked THEN Did("ok", d, {}, {})
       ELSE IF d[st]["chunk"] # NoFile THEN Did("ok", d, {}, {})
       ELSE IF d[st]["text"] \in {NoFile, Corrupt} THEN Did("null", d, {}, {})
       ELSE IF res = "ok"
            THEN Did("ok", [d EXCEPT ![st]["chunk"] = d[st]["text"]], {"chunk"}, {"chunk"})
       ELSE IF res = "null_partial"
            THEN Did("null", [d EXCEPT ![st]["chunk"] = Corrupt], {"chunk"}, {"chunk"})
       ELSE Did("null", d, {"chunk"}, {})

ChunkOutcomes(stats, d, st) ==
    IF stats.chunked \/ d[st]["chunk"] # NoFile THEN {"ok"}
    ELSE {"ok", "null", "null_partial"}

\* The worker running the task returns (or its future raises)
FinishTask(path, stage) ==
    /\ Running
    /\ path \in batch_paths
    /\ fut[path][stage] = "running"
    /\ LET stats == filtered_input_paths[path]
       IN \E res \in (IF stage = "conv" THEN ConvertOutcomes(stats)
                      ELSE IF stage = "proc" THEN ProcessOutcomes(stats)
                      ELSE ChunkOutcomes(stats, disk, Stem(path))) :
            LET did == IF stage = "conv" THEN convert_document(path, stats, disk, ver, res)
                       ELSE IF stage = "proc"
                            THEN process_converted_document(path, stats, disk, res)
                            ELSE chunk_single_file(path, stats, disk, res)
            IN /\ fut' = IF stage = "proc" /\ did.ret = "ok"
                         THEN [fut EXCEPT ![path].proc = "ok",
                                          ![path].page_count =
                                              ReturnedPageCount(path, stats, ver),
                                          ![path].table_count =
                                              ReturnedTableCount(path, stats, disk)]
                         ELSE [fut EXCEPT ![path][stage] = did.ret]
               /\ disk' = did.disk
               /\ ran' = ran \cup {<<path, step>> : step \in did.steps}
               /\ writes' = writes \cup {<<Stem(path), k, path>> : k \in did.wrote}
    /\ UNCHANGED <<input_paths, ver, changes, run, phase, filtered_input_paths,
                   light_files, heavy_files, handled, batch_stats, batch_chunk_paths,
                   batch_table_paths, l_out, h_out, combined_chunks, converted_paths,
                   converted_pdf_stats, unprocessed_files, prev,
                   pipeline_error, inserted_chunks, cli_exit>>
    /\ PipeFrame

\* The futures of a loop the main thread is done with once it has taken the
\* future of `path`: that one only, whatever its result (`continue`)
Consumed(path, stage) == {<<path, stage>>}

\* Loop B submitting the extraction of every taken future, failed or not
converted_json_Unchecked(path) == TRUE

\* Loop B goes on with `path`: conversion_future.result() did not raise and
\* `converted_json` is not None
converted_json(path) == fut[path].conv = "ok"

\* B. Handle Conversions -> Submit Processing
HandleConversion(path) ==
    /\ Running
    /\ path \in Completed("conv")
    /\ <<path, "conv">> \notin handled
    /\ handled' = handled \cup Consumed(path, "conv")
    /\ IF converted_json(path)
       THEN /\ batch_stats' = [batch_stats EXCEPT ![path] =
                                 [NoEntry EXCEPT !.keys = {"conversion"}]]
            /\ converted_paths' = Append(converted_paths, path)
            /\ fut' = [fut EXCEPT ![path].proc = "pending"]
       ELSE UNCHANGED <<batch_stats, converted_paths, fut>>
    /\ UNCHANGED <<input_paths, ver, changes, run, phase, disk, filtered_input_paths,
                   light_files, heavy_files, batch_chunk_paths, batch_table_paths,
                   l_out, h_out, combined_chunks, converted_pdf_stats,
                   unprocessed_files, ran, writes, prev,
                   pipeline_error, inserted_chunks, cli_exit>>
    /\ PipeFrame

\* C. Handle Processing -> Submit Chunking (the loop starts when loop B has ended)
HandleProcess(path) ==
    /\ Running
    /\ LoopOver("conv")
    /\ path \in Completed("proc")
    /\ <<path, "proc">> \notin handled
    /\ handled' = handled \cup Consumed(path, "proc")
    /\ IF fut[path].proc = "ok"
       THEN /\ batch_stats' = [batch_stats EXCEPT
                                 ![path].keys =
                                     @ \cup ProcessTimings(filtered_input_paths[path])
                                       \cup {"page_count", "table_count"},
                                 ![path].page_count = fut[path].page_count,
                                 ![path].table_count = fut[path].table_count]
            /\ batch_table_paths' = batch_table_paths \cup {Stem(path)}
            /\ fut' = [fut EXCEPT ![path].chunk = "pending"]
       ELSE UNCHANGED <<batch_stats, batch_table_paths, fut>>
    /\ UNCHANGED <<input_paths, ver, changes, run, phase, disk, filtered_input_paths,
                   light_files, heavy_files, batch_chunk_paths, l_out, h_out,
                   combined_chunks, converted_paths, converted_pdf_stats, unprocessed_files, ran,
                   writes, prev,
                   pipeline_error, inserted_chunks, cli_exit>>
    /\ PipeFrame

\* D. Handle Chunking (the loop starts when loop C has ended)
HandleChunk(path) ==
    /\ Running
    /\ LoopOver("conv")
    /\ LoopOver("proc")
    /\ path \in Completed("chunk")
    /\ <<path, "chunk">> \notin handled
    /\ handled' = handled \cup Consumed(path, "chunk")
    /\ IF fut[path].chunk = "ok"
       THEN /\ batch_stats' = [batch_stats EXCEPT ![path].keys = @ \cup {"chunking"}]
            /\ batch_chunk_paths' = batch_chunk_paths \cup {Stem(path)}
       ELSE UNCHANGED <<batch_stats, batch_chunk_paths>>
    /\ UNCHANGED <<input_paths, ver, changes, run, phase, disk, filtered_input_paths,
                   light_files, heavy_files, fut, batch_table_paths, l_out, h_out,
                   combined_chunks, converted_paths, converted_pdf_stats, unprocessed_files, ran,
                   writes, prev,
                   pipeline_error, inserted_chunks, cli_exit>>
    /\ PipeFrame

\* _run_batch returning as soon as loop C has ended, its chunking futures
\* left to the pool: the mutant of LoopsEnded
LoopsEnded_BeforeChunking == LoopOver("conv") /\ LoopOver("proc")

\* Loops B, C and D have ended: each has taken the result of every future
\* submitted to its stage
LoopsEnded == LoopOver("conv") /\ LoopOver("proc") /\ LoopOver("chunk")

\* The three loops have ended: the pools shut down and _run_batch returns
ReturnBatch ==
    /\ Running
    /\ LoopsEnded
    /\ LET out == [stats |-> batch_stats, chunk_paths |-> batch_chunk_paths,
                   table_paths |-> batch_table_paths]
       IN IF InLight THEN l_out' = out /\ UNCHANGED h_out
                     ELSE h_out' = out /\ UNCHANGED l_out
    /\ phase' = IF InLight THEN "heavy_enter" ELSE "merge"
    /\ batch_stats' = NoStats
    /\ batch_chunk_paths' = {}
    /\ batch_table_paths' = {}
    /\ handled' = {}
    /\ UNCHANGED <<input_paths, ver, changes, run, disk, filtered_input_paths,
                   light_files, heavy_files, fut, combined_chunks, converted_paths,
                   converted_pdf_stats, unprocessed_files, ran, writes, prev,
                   pipeline_error, inserted_chunks, cli_exit>>
    /\ PipeFrame

\* {**l_stats, **h_stats}
MergedStats(l, h) == [q \in AllPaths |-> IF h[q].keys # {} THEN h[q] ELSE l[q]]

StatsKeys(stats) == {q \in AllPaths : stats[q].keys # {}}

\* create_chunk_documents(c_path, t_path, path): the documents of one file,
\* held as the contents its chunk and table artifacts were made from
create_chunk_documents(d, path) ==
    [filename |-> path, chunks_of |-> d[Stem(path)]["chunk"],
     tables_of |-> d[Stem(path)]["table"]]

\* The loop over succeeded_files: the keys of the merged stats, in the order
\* the entries were made (light batch first), which is that of `paths`
RECURSIVE CombineChunks(_, _, _, _, _)
CombineChunks(paths, keys, chunk_paths, table_paths, d) ==
    IF paths = <<>> THEN <<>>
    ELSE LET path == Head(paths)
             rest == CombineChunks(Tail(paths), keys, chunk_paths, table_paths, d)
         IN IF /\ path \in keys
               /\ Stem(path) \in chunk_paths
               /\ Stem(path) \in table_paths
            THEN <<create_chunk_documents(d, path)>> \o rest
            ELSE rest

\* process_documents after the two batches: combine the stats and the documents
\* The merge loop calls create_chunk_documents for no file: the mutant of MergeRaises
MergeRaises_Never(keys, chunk_paths, table_paths, d) == FALSE

\* json.load in create_chunk_documents raises on a file cut short; the merge
\* loop calls it for the files it merges, outside any per-file try
MergeRaises(keys, chunk_paths, table_paths, d) ==
    \E path \in keys :
        /\ Stem(path) \in chunk_paths
        /\ Stem(path) \in table_paths
        /\ \/ d[Stem(path)]["chunk"] = Corrupt
           \/ d[Stem(path)]["table"] = Corrupt

\* The process_documents try block past the two batches: the merge, and the
\* except clause that turns an exception of it into (None, None)
MergeResults ==
    /\ phase = "merge"
    /\ LET stats == MergedStats(l_out.stats, h_out.stats)
           chunk_paths == l_out.chunk_paths \cup h_out.chunk_paths
           table_paths == l_out.table_paths \cup h_out.table_paths
       IN IF MergeRaises(StatsKeys(stats), chunk_paths, table_paths, disk)
          THEN /\ pipeline_error' = "merge"
               /\ UNCHANGED <<converted_pdf_stats, combined_chunks>>
          ELSE /\ pipeline_error' = "none"
               /\ converted_pdf_stats' = stats
               /\ combined_chunks' =
                     CombineChunks(converted_paths, StatsKeys(stats),
                                   chunk_paths, table_paths, disk)
    /\ phase' = "returned"
    /\ UNCHANGED <<input_paths, ver, changes, run, disk, filtered_input_paths,
                   light_files, heavy_files, fut, handled, batch_stats,
                   batch_chunk_paths, batch_table_paths, l_out, h_out,
                   converted_paths, unprocessed_files, ran, writes, prev,
                   inserted_chunks, cli_exit>>
    /\ PipeFrame

\* What ingest tests: process_documents returned (None, None)
ReturnedNone == pipeline_error # "none"

\* get_unprocessed_files(input_file_paths, converted_pdf_stats.keys())
get_unprocessed_files(paths, keys) == Range(paths) \ keys

\* ingest after process_documents returned its two results, and main after
\* ingest returned
IngestReport ==
    /\ phase = "returned"
    /\ IF ReturnedNone
       THEN UNCHANGED <<inserted_chunks, unprocessed_files>>
       ELSE /\ inserted_chunks' = combined_chunks
            /\ unprocessed_files' =
                  get_unprocessed_files(input_paths, StatsKeys(converted_pdf_stats))
    /\ phase' = "reported"
    /\ cli_exit' = main(ReturnedNone, converted_pdf_stats)
    /\ UNCHANGED <<input_paths, ver, changes, run, disk, filtered_input_paths,
                   light_files, heavy_files, fut, handled, batch_stats,
                   batch_chunk_paths, batch_table_paths, l_out, h_out, combined_chunks, converted_paths,
                   converted_pdf_stats, ran, writes, prev, pipeline_error>>
    /\ PipeFrame

Stages == {"conv", "proc", "chunk"}

Next ==
    \/ IngestNoDocuments
    \/ ProcessDocuments
    \/ \E path \in AllPaths : ContentChange(path)
    \/ RunBatchEmpty
    \/ SubmitConversions
    \/ PipelineError
    \/ \E path \in AllPaths, stage \in Stages : StartTask(path, stage)
    \/ \E path \in AllPaths, stage \in Stages : FinishTask(path, stage)
    \/ \E path \in AllPaths : HandleConversion(path)
    \/ \E path \in AllPaths : HandleProcess(path)
    \/ \E path \in AllPaths : HandleChunk(path)
    \/ ReturnBatch
    \/ MergeResults
    \/ IngestReport

(* ------------------------------------------------------------------ *)
(* SpecJobs: the job-submission API and its background tasks            *)
(* ------------------------------------------------------------------ *)
Operations == {"ingestion", "digitization"}

\* The bound of the semaphore of each operation type
Slots(op) == IF op = "ingestion" THEN INGESTION_SLOTS ELSE DIGITIZATION_SLOTS

JobIdle ==
    /\ j_sem = [op \in Operations |-> 0]
    /\ j_log = <<>>
    /\ j_overrelease = FALSE

\* The application has started: both semaphores are free
JobInit ==
    /\ j_sem = [op \in Operations |-> Slots(op)]
    /\ j_log = <<>>
    /\ j_overrelease = FALSE

\* sem.locked()
locked(op) == j_sem[op] = 0

\* The status digitize_document answers with
PostStatus(op, nfiles) ==
    IF locked(op) THEN 429
    ELSE IF op = "digitization" /\ nfiles > 1 THEN 400
    ELSE 202

\* POST /v1/documents.  The handler runs from its first line to its return
\* without giving the event loop a turn: acquire() on a semaphore that is not
\* locked does not suspend.
digitize_document(op, nfiles) ==
    /\ Len(j_log) < MaxRequests
    /\ LET st == PostStatus(op, nfiles)
       IN /\ j_sem' = IF st = 202 THEN [j_sem EXCEPT ![op] = @ - 1] ELSE j_sem
          /\ j_log' = Append(j_log, [op |-> op, files |-> nfiles, free |-> j_sem[op],
                                     status |-> st,
                                     task |-> IF st = 202 THEN "scheduled" ELSE "none",
                                     released |-> 0])
    /\ UNCHANGED j_overrelease
    /\ JobFrame

\* The background task of an accepted job starts, once its response is sent
TaskStart(id) ==
    /\ id \in DOMAIN j_log
    /\ j_log[id].task = "scheduled"
    /\ j_log' = [j_log EXCEPT ![id].task = "running"]
    /\ UNCHANGED <<j_sem, j_overrelease>>
    /\ JobFrame

\* The background task releasing its slot only when its body did not raise:
\* the mutant of TaskReleases
TaskReleases_OnSuccess(res) == res = "completed"

\* The finally clause runs whether the body of the task raised or not
TaskReleases(res) == TRUE

\* ingest_documents / digitize_documents end: the body completed or raised
\* (the except clause logs), then the finally clause releases the semaphore
TaskEnd(id, res) ==
    /\ id \in DOMAIN j_log
    /\ j_log[id].task = "running"
    /\ LET op == j_log[id].op
       IN IF ~TaskReleases(res)
          THEN /\ j_log' = [j_log EXCEPT ![id].task = res]
               /\ UNCHANGED <<j_sem, j_overrelease>>
          ELSE IF j_sem[op] >= Slots(op)
          THEN /\ j_log' = [j_log EXCEPT ![id].task = res]
               /\ j_overrelease' = TRUE
               /\ UNCHANGED j_sem
          ELSE /\ j_log' = [j_log EXCEPT ![id].task = res, ![id].released = @ + 1]
               /\ j_sem' = [j_sem EXCEPT ![op] = @ + 1]
               /\ UNCHANGED j_overrelease
    /\ JobFrame

JobNext ==
    \/ \E op \in Operations, nfiles \in 1..MaxFiles : digitize_document(op, nfiles)
    \/ \E id \in 1..MaxRequests : TaskStart(id)
    \/ \E id \in 1..MaxRequests, res \in {"completed", "failed"} : TaskEnd(id, res)

(* ------------------------------------------------------------------ *)
(* SpecChat: chat_completion and the life of its response stream        *)
(* ------------------------------------------------------------------ *)
\* settings.max_concurrent_requests, as configured
max_concurrent_requests == MaxConcurrent

ChatIdle ==
    /\ c_free = 0
    /\ c_reqs = <<>>

\* concurrency_limiter = BoundedSemaphore(settings.max_concurrent_requests)
ChatInit ==
    /\ c_free = max_concurrent_requests
    /\ c_reqs = <<>>

\* POST /v1/chat/completions up to its return; docs: search_only found
\* documents.  With documents it takes a slot without blocking or answers 429;
\* query_vllm_stream is a generator function, so the call only makes the
\* generator and the response is returned with locked_stream not yet started.
chat_completion(docs) ==
    /\ Len(c_reqs) < MaxChats
    /\ LET got == docs /\ c_free > 0
           pc == IF ~docs THEN "not_found"
                 ELSE IF got THEN "created" ELSE "busy"
       IN /\ c_free' = IF got THEN c_free - 1 ELSE c_free
          /\ c_reqs' = Append(c_reqs, [docs |-> docs, free |-> c_free, acquired |-> got,
                                       status |-> IF pc = "busy" THEN 429 ELSE 200,
                                       pc |-> pc, released |-> 0])
    /\ ChatFrame

\* The server takes the first chunk of the response: locked_stream starts and
\* enters its try block
StreamStart(id) ==
    /\ id \in DOMAIN c_reqs
    /\ c_reqs[id].pc = "created"
    /\ c_reqs' = [c_reqs EXCEPT ![id].pc = "streaming"]
    /\ UNCHANGED c_free
    /\ ChatFrame

\* locked_stream leaves its try block: the stream is exhausted ("ended"), the
\* model stream raises ("failed"), or the generator is closed at a yield
\* ("closed"); the finally clause releases the slot
StreamEnd(id, how) ==
    /\ id \in DOMAIN c_reqs
    /\ c_reqs[id].pc = "streaming"
    /\ c_reqs' = [c_reqs EXCEPT ![id].pc = how, ![id].released = @ + 1]
    /\ c_free' = c_free + 1
    /\ ChatFrame

\* The response is closed or dropped before its first chunk is taken: a
\* generator that was never started runs none of its body when it is closed,
\* so the finally clause of locked_stream is not executed
StreamDiscard(id) ==
    /\ id \in DOMAIN c_reqs
    /\ c_reqs[id].pc = "created"
    /\ c_reqs' = [c_reqs EXCEPT ![id].pc = "discarded"]
    /\ UNCHANGED c_free
    /\ ChatFrame

ChatNext ==
    \/ \E docs \in BOOLEAN : chat_completion(docs)
    \/ \E id \in 1..MaxChats : StreamStart(id)
    \/ \E id \in 1..MaxChats, how \in {"ended", "failed", "closed"} : StreamEnd(id, how)
    \/ \E id \in 1..MaxChats : StreamDiscard(id)

(* ------------------------------------------------------------------ *)
(* SpecSearch: search_only on a ranked list of hits                     *)
(* ------------------------------------------------------------------ *)
\* settings.score_threshold on the scale 0..MaxScore of the scores
score_threshold == 1

\* A ranked hit: a document and the score it was given
Hits == [doc : 1..MaxHits, score : 0..MaxScore]

\* retrieve_documents: the hits of the vector store in its order, document i
\* at position i, each with its retrieval score
RetrievedLists ==
    {h \in SeqsUpTo(Hits, MaxHits) : \A i \in DOMAIN h : h[i].doc = i}

\* rerank_documents: the (document, score) pairs the reranker returns, in its
\* order
RerankedLists == SeqsUpTo(Hits, MaxHits)

SearchIdle ==
    /\ s_pc = "off"
    /\ s_use_reranker = FALSE
    /\ s_top_r = 0
    /\ s_ranked = <<>>
    /\ s_out = <<>>

SearchInit ==
    /\ s_pc = "in"
    /\ s_use_reranker \in BOOLEAN
    /\ s_top_r \in 0..MaxTopR
    /\ s_ranked \in (IF s_use_reranker THEN RerankedLists ELSE RetrievedLists)
    /\ s_out = <<>>

\* `for i, (doc, score) in enumerate(reranked, 1): append; if i == top_r: break`
TakeReranked(reranked, top_r) ==
    IF \E i \in 1..Len(reranked) : i = top_r
    THEN SubSeq(reranked, 1, top_r)
    ELSE reranked

\* retrieved_documents[:top_r], for top_r >= 0
TakeRetrieved(retrieved, top_r) == SubSeq(retrieved, 1, Min(top_r, Len(retrieved)))

\* The loop over zip(ranked_documents, ranked_scores)
AboveThreshold(ranked) ==
    LET keep(h) == h.score >= score_threshold
    IN SelectSeq(ranked, keep)

search_only ==
    /\ s_pc = "in"
    /\ s_out' = AboveThreshold(IF s_use_reranker THEN TakeReranked(s_ranked, s_top_r)
                               ELSE TakeRetrieved(s_ranked, s_top_r))
    /\ s_pc' = "out"
    /\ UNCHANGED <<s_use_reranker, s_top_r, s_ranked>>
    /\ SearchFrame

SearchNext == search_only

(* ------------------------------------------------------------------ *)
(* SpecDocs: create_chunk_documents on a chunk and a table artifact     *)
(* ------------------------------------------------------------------ *)
\* A title of a chunk: null, empty, or a title
ChunkTitleValues == {None, "", "T"}

\* The chunks of a chunk artifact (content c stands for the chunk's text) and
\* the tables of a table artifact
DocChunks ==
    [chapter_title : ChunkTitleValues, section_title : ChunkTitleValues,
     subsection_title : ChunkTitleValues, subsubsection_title : ChunkTitleValues,
     content : {"c"}]
DocTables == [summary : {"s1", "s2"}, html : {"h"}]

\* if block.get(title): a title that is neither null nor empty
HasTitle(title) == title # None /\ title # ""

\* The breadcrumb with every title, empty or not: the mutant of MetaInfo
MetaInfo_All(block) ==
    <<[kind |-> "Chapter", title |-> block.chapter_title],
      [kind |-> "Section", title |-> block.section_title],
      [kind |-> "Subsection", title |-> block.subsection_title],
      [kind |-> "Subsubsection", title |-> block.subsubsection_title]>>

\* meta_info: "Chapter: .. Section: .. Subsection: .. Subsubsection: .. ",
\* held as the list of its parts
MetaInfo(block) ==
    (IF HasTitle(block.chapter_title)
     THEN <<[kind |-> "Chapter", title |-> block.chapter_title]>> ELSE <<>>)
    \o (IF HasTitle(block.section_title)
        THEN <<[kind |-> "Section", title |-> block.section_title]>> ELSE <<>>)
    \o (IF HasTitle(block.subsection_title)
        THEN <<[kind |-> "Subsection", title |-> block.subsection_title]>> ELSE <<>>)
    \o (IF HasTitle(block.subsubsection_title)
        THEN <<[kind |-> "Subsubsection", title |-> block.subsubsection_title]>> ELSE <<>>)

\* The document of a chunk; page_content is meta_info, a newline and the
\* content, or the content alone when meta_info is empty
TextDoc(block, orig_fn) ==
    [page_content |-> [meta |-> MetaInfo(block), content |-> block.content],
     filename |-> orig_fn, type |-> "text", source |-> MetaInfo(block),
     language |-> "en"]

\* The document of a table
TableDoc(block, orig_fn) ==
    [page_content |-> [meta |-> <<>>, content |-> block.summary],
     filename |-> orig_fn, type |-> "table", source |-> block.html,
     language |-> "en"]

\* txt_docs + tab_docs
CombinedDocs(txt, tab, orig_fn) ==
    [i \in 1..Len(txt) |-> TextDoc(txt[i], orig_fn)]
    \o [i \in 1..Len(tab) |-> TableDoc(tab[i], orig_fn)]

DocsIdle ==
    /\ cd_pc = "idle"
    /\ txt_data = <<>>
    /\ tab_data = <<>>
    /\ combined_docs = <<>>

DocsInit ==
    /\ cd_pc = "in"
    /\ txt_data \in SeqsUpTo(DocChunks, MaxDocChunks)
    /\ tab_data \in SeqsUpTo(DocTables, MaxDocChunks)
    /\ combined_docs = <<>>

CreateChunkDocuments ==
    /\ cd_pc = "in"
    /\ combined_docs' = CombinedDocs(txt_data, tab_data, "a/x.pdf")
    /\ cd_pc' = "out"
    /\ UNCHANGED <<txt_data, tab_data>>
    /\ DocsFrame

DocsNext == CreateChunkDocuments

(* ------------------------------------------------------------------ *)
(* SpecSession: create_llm_session called again and again               *)
(* ------------------------------------------------------------------ *)
\* SESSION = None
NoSession == [id |-> 0, pool_maxsize |-> 0, pool_connections |-> 0, pool_block |-> FALSE]

\* The arguments of a call
SessionArgs == [pool_maxsize : {1, 32}, pool_connections : {1, 2}, pool_block : BOOLEAN]

\* The guard left out: the mutant of SessionMissing
SessionMissing_Always(session) == TRUE

\* if SESSION is None
SessionMissing(session) == session = NoSession

SessionIdle ==
    /\ SESSION = NoSession
    /\ session_calls = <<>>

\* The module is imported: SESSION = None. The specification starts there too.
SessionInit == SessionIdle

\* create_llm_session(pool_maxsize, pool_connections, pool_block); the
\* requests.Session created by the n-th call has id n
create_llm_session(args) ==
    /\ Len(session_calls) < MaxCalls
    /\ session_calls' = Append(session_calls, args)
    /\ SESSION' = IF SessionMissing(SESSION)
                  THEN [id |-> Len(session_calls) + 1,
                        pool_maxsize |-> args.pool_maxsize,
                        pool_connections |-> args.pool_connections,
                        pool_block |-> args.pool_block]
                  ELSE SESSION
    /\ SessionFrame

SessionNext == \E args \in SessionArgs : create_llm_session(args)

(* ------------------------------------------------------------------ *)
(* SpecText: process_text on the texts of a converted document         *)
(* ------------------------------------------------------------------ *)
\* A ToC of two titles, of levels 1 and 2, in the order of the outlines
Toc == <<[title |-> "t1", level |-> 1], [title |-> "t2", level |-> 2]>>
TocTitles == {Toc[i].title : i \in DOMAIN Toc}

excluded_labels == {"page_header", "page_footer", "caption", "reference", "footnote"}

\* A text of the converted document: its label, the number of entries of its
\* prov list (entry k is on page k), the ToC titles its text scores at least
\* the threshold against, and what find_text_font_size finds on its page:
\* "none" no line, "fuzzy" lines none of which scores 100, "exact" a line
\* scoring 100
TextObjects ==
    [label : {"section_header", "text", "page_header", "footnote"}, prov : 1..2,
     matches : SUBSET TocTitles, font : {"none", "fuzzy", "exact"}]

\* The font size of the line scoring 100
ExactFontSize == 12

\* get_matching_header_lvl: the number of '#' of the prefix, i.e. the level of
\* the first ToC title the text matches, 0 for the empty prefix
RECURSIVE get_matching_header_lvl(_, _)
get_matching_header_lvl(toc, matches) ==
    IF toc = <<>> THEN 0
    ELSE IF Head(toc).title \in matches THEN Head(toc).level
    ELSE get_matching_header_lvl(Tail(toc), matches)

\* The level written in front of a header when there is a ToC
TocHeaderLevel(header_prefix, last) ==
    IF header_prefix > 0 THEN header_prefix ELSE last + 1

\* last_header_level following the level given to an unmatched header too: the
\* mutant of LastHeaderLevel
LastHeaderLevel_Follows(header_prefix, last) == TocHeaderLevel(header_prefix, last)

\* last_header_level after a header: set on a ToC match only
LastHeaderLevel(header_prefix, last) ==
    IF header_prefix > 0 THEN header_prefix ELSE last

\* An entry of structured_output; src is the text it was made from, level the
\* number of '#' in front of its text (0: none)
OutputBlock(label, src, level, page, font_size) ==
    [label |-> label, src |-> src, level |-> level, page |-> page,
     font_size |-> font_size]

TextIdle ==
    /\ tx_pc = "idle"
    /\ toc_headers = <<>>
    /\ tx_texts = <<>>
    /\ structured_output = <<>>
    /\ last_header_level = 0

\* process_text up to the loop: get_toc found a ToC or none
TextInit ==
    /\ tx_pc = "loop"
    /\ toc_headers \in {<<>>, Toc}
    /\ tx_texts = <<>>
    /\ structured_output = <<>>
    /\ last_header_level = 0

\* if label in excluded_labels: continue
TextExcluded(obj) ==
    /\ tx_pc = "loop"
    /\ Len(tx_texts) < MaxTexts
    /\ obj.label \in excluded_labels
    /\ obj.prov = 1 /\ obj.matches = {} /\ obj.font = "none"
    /\ tx_texts' = Append(tx_texts, obj)
    /\ UNCHANGED <<tx_pc, toc_headers, structured_output, last_header_level>>
    /\ TextFrame

\* A section_header when there is a ToC: one block for each entry of prov
TextHeaderToc(obj) ==
    /\ tx_pc = "loop"
    /\ Len(tx_texts) < MaxTexts
    /\ toc_headers # <<>>
    /\ obj.label = "section_header"
    /\ obj.font = "none"
    /\ LET src == Len(tx_texts) + 1
           header_prefix == get_matching_header_lvl(toc_headers, obj.matches)
           level == TocHeaderLevel(header_prefix, last_header_level)
       IN /\ structured_output' = structured_output \o
                [k \in 1..obj.prov |-> OutputBlock(obj.label, src, level, k, NoFont)]
          /\ last_header_level' = LastHeaderLevel(header_prefix, last_header_level)
    /\ tx_texts' = Append(tx_texts, obj)
    /\ UNCHANGED <<tx_pc, toc_headers>>
    /\ TextFrame

\* A section_header when there is no ToC: for each entry of prov, one block
\* if find_text_font_size finds a line on the page, with the font size of the
\* lines scoring 100 or None
TextHeaderFont(obj) ==
    /\ tx_pc = "loop"
    /\ Len(tx_texts) < MaxTexts
    /\ toc_headers = <<>>
    /\ obj.label = "section_header"
    /\ obj.matches = {}
    /\ LET src == Len(tx_texts) + 1
           font_size == IF obj.font = "exact" THEN ExactFontSize ELSE NoFont
       IN structured_output' =
             IF obj.font = "none" THEN structured_output
             ELSE structured_output \o
                    [k \in 1..obj.prov |-> OutputBlock(obj.label, src, 0, k, font_size)]
    /\ tx_texts' = Append(tx_texts, obj)
    /\ UNCHANGED <<tx_pc, toc_headers, last_header_level>>
    /\ TextFrame

\* Any other label: one block, on the page of the first entry of prov
TextOther(obj) ==
    /\ tx_pc = "loop"
    /\ Len(tx_texts) < MaxTexts
    /\ obj.label \notin excluded_labels \cup {"section_header"}
    /\ obj.matches = {} /\ obj.font = "none"
    /\ structured_output' =
          Append(structured_output, OutputBlock(obj.label, Len(tx_texts) + 1, 0, 1, NoFont))
    /\ tx_texts' = Append(tx_texts, obj)
    /\ UNCHANGED <<tx_pc, toc_headers, last_header_level>>
    /\ TextFrame

\* The texts are exhausted (or there is none): the text artifact is written
TextWrite ==
    /\ tx_pc = "loop"
    /\ tx_pc' = "done"
    /\ UNCHANGED <<toc_headers, tx_texts, structured_output, last_header_level>>
    /\ TextFrame

TextNext ==
    \/ \E obj \in TextObjects : TextExcluded(obj)
    \/ \E obj \in TextObjects : TextHeaderToc(obj)
    \/ \E obj \in TextObjects : TextHeaderFont(obj)
    \/ \E obj \in TextObjects : TextOther(obj)
    \/ TextWrite

(* ------------------------------------------------------------------ *)
(* SpecPool: the three pools of _run_batch on one batch of any size     *)
(* ------------------------------------------------------------------ *)
PoolFiles == 1..p_n
NoPoolFutures == [i \in 1..MaxBatch |-> [conv |-> "none", proc |-> "none", chunk |-> "none"]]

PoolIdle ==
    /\ p_heavy = FALSE
    /\ p_n = 0
    /\ p_loop = "off"
    /\ p_fut = NoPoolFutures
    /\ p_handled = {}
    /\ p_pools = FALSE

\* _run_batch is entered with a batch that is not empty
PoolInit ==
    /\ p_heavy \in BOOLEAN
    /\ p_n \in 1..MaxBatch
    /\ p_loop = "A"
    /\ p_fut = NoPoolFutures
    /\ p_handled = {}
    /\ p_pools = TRUE

\* The tasks a pool is running, and the number of workers of the pool
PoolRunning(stage) == {i \in PoolFiles : p_fut[i][stage] = "running"}
PoolWorkers(stage) ==
    IF stage = "conv" THEN ConvertWorkers(p_heavy, p_n) ELSE MaxWorkers(p_n)

\* as_completed yielding only the futures that hold a result, a failed one
\* never: the mutant of PoolDone
PoolDone_OkOnly(stage) == {i \in PoolFiles : p_fut[i][stage] = "ok"}

\* The futures of a stage that are done, and those the main thread created
PoolDone(stage) == {i \in PoolFiles : p_fut[i][stage] \in {"ok", "failed"}}
PoolSubmitted(stage) == {i \in PoolFiles : p_fut[i][stage] # "none"}

\* A. Submit Conversions
PoolSubmitConversions ==
    /\ p_loop = "A"
    /\ p_fut' = [i \in 1..MaxBatch |->
                   IF i \in PoolFiles THEN [p_fut[i] EXCEPT !.conv = "pending"]
                   ELSE p_fut[i]]
    /\ p_loop' = "B"
    /\ UNCHANGED <<p_pools, p_heavy, p_n, p_handled>>
    /\ PoolFrame

\* An idle worker of the pool of the stage takes a queued task
PoolStart(i, stage) ==
    /\ i \in PoolFiles
    /\ p_fut[i][stage] = "pending"
    /\ Cardinality(PoolRunning(stage)) < PoolWorkers(stage)
    /\ p_fut' = [p_fut EXCEPT ![i][stage] = "running"]
    /\ UNCHANGED <<p_pools, p_heavy, p_n, p_loop, p_handled>>
    /\ PoolFrame

\* The task ends: it returned a result ("ok"), or it returned Nones or raised
PoolFinish(i, stage, res) ==
    /\ i \in PoolFiles
    /\ p_fut[i][stage] = "running"
    /\ p_fut' = [p_fut EXCEPT ![i][stage] = res]
    /\ UNCHANGED <<p_pools, p_heavy, p_n, p_loop, p_handled>>
    /\ PoolFrame

\* One iteration of an as_completed loop: loop B submits the extraction of a
\* converted file, loop C the chunking of an extracted file
PoolHandle(i, stage, loop, next) ==
    /\ p_loop = loop
    /\ i \in PoolDone(stage)
    /\ <<i, stage>> \notin p_handled
    /\ p_handled' = p_handled \cup {<<i, stage>>}
    /\ p_fut' = IF p_fut[i][stage] = "ok" /\ next # "none"
                THEN [p_fut EXCEPT ![i][next] = "pending"]
                ELSE p_fut
    /\ UNCHANGED <<p_pools, p_heavy, p_n, p_loop>>
    /\ PoolFrame

\* An as_completed loop ends when it has consumed every future it was given;
\* after loop D the with block waits for nothing more and _run_batch returns
PoolLoopEnds(stage, loop, after) ==
    /\ p_loop = loop
    /\ \A i \in PoolSubmitted(stage) : <<i, stage>> \in p_handled
    /\ p_loop' = after
    /\ UNCHANGED <<p_pools, p_heavy, p_n, p_fut, p_handled>>
    /\ PoolFrame

PoolNext ==
    \/ PoolSubmitConversions
    \/ \E i \in 1..MaxBatch, stage \in {"conv", "proc", "chunk"} : PoolStart(i, stage)
    \/ \E i \in 1..MaxBatch, stage \in {"conv", "proc", "chunk"}, res \in {"ok", "failed"} :
          PoolFinish(i, stage, res)
    \/ \E i \in 1..MaxBatch : PoolHandle(i, "conv", "B", "proc")
    \/ \E i \in 1..MaxBatch : PoolHandle(i, "proc", "C", "chunk")
    \/ \E i \in 1..MaxBatch : PoolHandle(i, "chunk", "D", "none")
    \/ PoolLoopEnds("conv", "B", "C")
    \/ PoolLoopEnds("proc", "C", "D")
    \/ PoolLoopEnds("chunk", "D", "end")

(* ------------------------------------------------------------------ *)
(* SpecBatch: one call of _run_batch, from its entry to its return      *)
(* ------------------------------------------------------------------ *)
\* _run_batch is entered with a batch of any size, the empty one included
BatchInit ==
    /\ p_heavy \in BOOLEAN
    /\ p_n \in 0..MaxLiveBatch
    /\ p_loop = "enter"
    /\ p_fut = NoPoolFutures
    /\ p_handled = {}
    /\ p_pools = FALSE

\* `if not batch_paths: return batch_stats, batch_chunk_paths, batch_table_paths`
BatchReturnEmpty ==
    /\ p_loop = "enter"
    /\ p_n = 0
    /\ p_loop' = "end"
    /\ UNCHANGED <<p_pools, p_heavy, p_n, p_fut, p_handled>>
    /\ PoolFrame

\* The with statement creates the three executors
BatchCreatePools ==
    /\ p_loop = "enter"
    /\ p_n # 0
    /\ p_pools' = TRUE
    /\ p_loop' = "A"
    /\ UNCHANGED <<p_heavy, p_n, p_fut, p_handled>>
    /\ PoolFrame

BatchNext == BatchReturnEmpty \/ BatchCreatePools \/ PoolNext

(* ------------------------------------------------------------------ *)
(* SpecFile: one file taken through its stages on any cache directory  *)
(* ------------------------------------------------------------------ *)
\* The file, and its content: version 1, after a version 0
FilePath == "a/x.pdf"
FileVer == [q \in AllPaths |-> 1]
FileStem == Stem(FilePath)

\* What a cache file of the stem can hold when a run starts: nothing, what a
\* run on the old or on the current content wrote, or a file cut short. The
\* user may have removed any file of the cache directory.
StoredChecksums ==
    {NoFile, [path |-> FilePath, ver |-> 0], [path |-> FilePath, ver |-> 1]}
StoredArtifacts == StoredChecksums \cup {Corrupt}

FileCaches ==
    {[st \in Stems |->
        IF st = FileStem
        THEN [k \in Kinds |-> IF k = "checksum" THEN c
                              ELSE IF k = "json" THEN a[1]
                              ELSE IF k = "text" THEN a[2]
                              ELSE IF k = "table" THEN a[3] ELSE a[4]]
        ELSE [k \in Kinds |-> NoFile]] :
     c \in StoredChecksums,
     a \in StoredArtifacts \X StoredArtifacts \X StoredArtifacts \X StoredArtifacts}

NoReturns == [conv |-> "none", proc |-> "none", chunk |-> "none"]

FileIdle ==
    /\ f_pc = "off"
    /\ f_disk0 = [st \in Stems |-> [k \in Kinds |-> NoFile]]
    /\ f_disk = f_disk0
    /\ f_stats = [convert |-> TRUE, text_processed |-> FALSE,
                  table_processed |-> FALSE, chunked |-> FALSE]
    /\ f_ret = NoReturns
    /\ f_ran = {}
    /\ f_wrote = {}
    /\ f_res = NoReturns

\* process_documents up to the submission of the file's conversion
FileInit ==
    /\ f_pc = "conv"
    /\ f_disk0 \in FileCaches
    /\ f_stats = ChangeFlags(FilePath, f_disk0, FileVer)
    /\ f_disk = WriteChecksums(<<FilePath>>, [q \in {FilePath} |-> f_stats],
                               f_disk0, FileVer)
    /\ f_ret = NoReturns
    /\ f_ran = {}
    /\ f_wrote = {}
    /\ f_res = NoReturns

\* The stage function of `stage` is called and returns
FileStage(stage, res, did) ==
    /\ f_res' = [f_res EXCEPT ![stage] = res]
    /\ f_ret' = [f_ret EXCEPT ![stage] = did.ret]
    /\ f_disk' = did.disk
    /\ f_ran' = f_ran \cup did.steps
    /\ f_wrote' = f_wrote \cup did.wrote
    /\ f_pc' = IF did.ret # "ok" THEN "end"
               ELSE IF stage = "conv" THEN "proc"
               ELSE IF stage = "proc" THEN "chunk" ELSE "end"
    /\ UNCHANGED <<f_disk0, f_stats>>
    /\ FileFrame

FileConvert ==
    /\ f_pc = "conv"
    /\ \E res \in ConvertOutcomes(f_stats) :
          FileStage("conv", res, convert_document(FilePath, f_stats, f_disk, FileVer, res))

FileProcess ==
    /\ f_pc = "proc"
    /\ \E res \in ProcessOutcomes(f_stats) :
          FileStage("proc", res, process_converted_document(FilePath, f_stats, f_disk, res))

FileChunk ==
    /\ f_pc = "chunk"
    /\ \E res \in ChunkOutcomes(f_stats, f_disk, FileStem) :
          FileStage("chunk", res, chunk_single_file(FilePath, f_stats, f_disk, res))

FileNext == FileConvert \/ FileProcess \/ FileChunk

(* ------------------------------------------------------------------ *)
(* Specifications                                                      *)
(* ------------------------------------------------------------------ *)
InitSplit == SplitInit /\ TableIdle /\ ChunkIdle /\ PipeIdle /\ FileIdle /\ PoolIdle /\ TextIdle /\ SessionIdle /\ DocsIdle /\ JobIdle /\ ChatIdle /\ SearchIdle

SpecSplit == InitSplit /\ [][SplitNext]_vars

InitTable == TableInit /\ SplitIdle /\ ChunkIdle /\ PipeIdle /\ FileIdle /\ PoolIdle /\ TextIdle /\ SessionIdle /\ DocsIdle /\ JobIdle /\ ChatIdle /\ SearchIdle

SpecTable == InitTable /\ [][TableNext]_vars

InitChunk == ChunkInit /\ SplitIdle /\ TableIdle /\ PipeIdle /\ FileIdle /\ PoolIdle /\ TextIdle /\ SessionIdle /\ DocsIdle /\ JobIdle /\ ChatIdle /\ SearchIdle

SpecChunk == InitChunk /\ [][ChunkNext]_vars

Init == PipeInit /\ SplitIdle /\ TableIdle /\ ChunkIdle /\ FileIdle /\ PoolIdle /\ TextIdle /\ SessionIdle /\ DocsIdle /\ JobIdle /\ ChatIdle /\ SearchIdle

Spec == Init /\ [][Next]_vars

InitBatch == BatchInit /\ SplitIdle /\ TableIdle /\ ChunkIdle /\ PipeIdle /\ FileIdle /\ TextIdle /\ SessionIdle /\ DocsIdle /\ JobIdle /\ ChatIdle /\ SearchIdle

\* Every step of the main thread and of the workers is taken in the end: a
\* stage call returns or raises, and the main thread is never starved
SpecBatch == InitBatch /\ [][BatchNext]_vars /\ WF_vars(BatchNext)

InitPool == PoolInit /\ SplitIdle /\ TableIdle /\ ChunkIdle /\ PipeIdle /\ FileIdle /\ TextIdle /\ SessionIdle /\ DocsIdle /\ JobIdle /\ ChatIdle /\ SearchIdle

SpecPool == InitPool /\ [][PoolNext]_vars

InitText == TextInit /\ SplitIdle /\ TableIdle /\ ChunkIdle /\ PipeIdle /\ FileIdle /\ PoolIdle /\ SessionIdle /\ DocsIdle /\ JobIdle /\ ChatIdle /\ SearchIdle

SpecText == InitText /\ [][TextNext]_vars

InitSession == SessionInit /\ SplitIdle /\ TableIdle /\ ChunkIdle /\ PipeIdle /\ FileIdle /\ PoolIdle /\ TextIdle /\ DocsIdle /\ JobIdle /\ ChatIdle /\ SearchIdle

SpecSession == InitSession /\ [][SessionNext]_vars

InitJobs == JobInit /\ SplitIdle /\ TableIdle /\ ChunkIdle /\ PipeIdle /\ FileIdle /\ PoolIdle /\ TextIdle /\ SessionIdle /\ DocsIdle /\ ChatIdle /\ SearchIdle

SpecJobs == InitJobs /\ [][JobNext]_vars

InitChat == ChatInit /\ SplitIdle /\ TableIdle /\ ChunkIdle /\ PipeIdle /\ FileIdle /\ PoolIdle /\ TextIdle /\ SessionIdle /\ DocsIdle /\ JobIdle /\ SearchIdle

SpecChat == InitChat /\ [][ChatNext]_vars

InitSearch == SearchInit /\ SplitIdle /\ TableIdle /\ ChunkIdle /\ PipeIdle /\ FileIdle /\ PoolIdle /\ TextIdle /\ SessionIdle /\ DocsIdle /\ JobIdle /\ ChatIdle

SpecSearch == InitSearch /\ [][SearchNext]_vars

InitDocs == DocsInit /\ SplitIdle /\ TableIdle /\ ChunkIdle /\ PipeIdle /\ FileIdle /\ PoolIdle /\ TextIdle /\ SessionIdle /\ JobIdle /\ ChatIdle /\ SearchIdle

SpecDocs == InitDocs /\ [][DocsNext]_vars

InitFile == FileInit /\ SplitIdle /\ TableIdle /\ ChunkIdle /\ PipeIdle /\ PoolIdle /\ TextIdle /\ SessionIdle /\ DocsIdle /\ JobIdle /\ ChatIdle /\ SearchIdle

SpecFile == InitFile /\ [][FileNext]_vars

(* ------------------------------------------------------------------ *)
(* Claims                                                              *)
(* ------------------------------------------------------------------ *)

\* C1: every chunk emitted through flush_chunk has a total sentence token
\* count <= max_tokens, unless it is a single sentence that alone exceeds
\* max_tokens.
C1_TokenBudget ==
    (sp_pc = "out" /\ sp_via = "flush_chunk") =>
        \A i \in 1..Len(sp_chunks) :
            \/ SumTokens(sp_tokens, sp_chunks[i]) <= sp_max
            \/ /\ Len(sp_chunks[i]) = 1
               /\ sp_tokens[sp_chunks[i][1]] > sp_max

\* C3: when the classification request of a batch fails, the batch contributes
\* one keep=true decision per table (so there is one decision per input table)
\* and every table of the batch is in the table artifact process_table writes.
C3_FailOpenPerTable ==
    tb_pc = "done" /\ tb_n > 0 =>
        /\ Len(tb_decisions) = tb_n
        /\ \A b \in tb_failed :
             \A j \in b..Min(b + CLASSIFY_BATCH_SIZE - 1, tb_n) :
                /\ j <= Len(tb_decisions) /\ tb_decisions[j]
                /\ j \in DOMAIN tb_out /\ tb_out[j].html = j

\* ---- reading of the header rules used by C8: the title in force at a
\* level is the title of the last header of that level that no later header
\* of a higher rank (smaller level) has cleared
LevelAt(i) == get_header_level(ck_data[i], font_size_levels)
IsHeader(i) == ck_data[i].label = "section_header"
SlotOf(i) == IF LevelAt(i) \in {1, 2, 3} THEN LevelAt(i) ELSE 4
InForceAt(slot, n) ==
    LET live == {i \in 1..n : /\ IsHeader(i) /\ SlotOf(i) = slot
                              /\ \A j \in (i + 1)..n :
                                    IsHeader(j) => SlotOf(j) >= slot}
    IN IF live = {} THEN None
       ELSE ToString(CHOOSE i \in live : \A j \in live : j <= i)
TitlesInForce(n) ==
    Titles(InForceAt(1, n), InForceAt(2, n), InForceAt(3, n), InForceAt(4, n))
ChunkTitles(c) ==
    Titles(c.chapter_title, c.section_title, c.subsection_title, c.subsubsection_title)
IsContent(i) == ck_data[i].label \in {"text", "list_item", "code", "formula"}
H1ContentH3Content ==
    /\ Len(ck_data) = 4
    /\ IsHeader(1) /\ LevelAt(1) = 1
    /\ IsContent(2) /\ ck_data[2].tokens > 0
    /\ IsHeader(3) /\ LevelAt(3) = 3
    /\ IsContent(4) /\ ck_data[4].tokens > 0

\* C7: the page_range of every emitted chunk is the ascending duplicate-free
\* list of the pages the text extractor recorded for the blocks accumulated
\* into it; a section under one level-1 header with one-sentence bodies on
\* pages 1 and 2, within budget, is one chunk with page_range <<1, 2>> and
\* no part_id.
C7_PageRange ==
    /\ \A k \in 1..Len(chunks) :
          chunks[k].page_range =
              SortedSeq({ck_data[i].page : i \in Range(chunks[k].source_nodes)})
    /\ ( /\ ck_pc = "done"
         /\ Len(ck_data) = 3
         /\ IsHeader(1) /\ LevelAt(1) = 1
         /\ IsContent(2) /\ ck_data[2].page = 1 /\ ck_data[2].tokens = 1
         /\ IsContent(3) /\ ck_data[3].page = 2 /\ ck_data[3].tokens = 1 )
        => /\ Len(chunks) = 1
           /\ chunks[1].chapter_title = "1"
           /\ chunks[1].page_range = <<1, 2>>
           /\ "part_id" \notin DOMAIN chunks[1]

\* C8: the header state always equals the titles in force under the reset
\* rules (level 1 clears 2-4, level 2 clears 3-4, level 3 clears 4, any other
\* level sets only subsubsection), every emitted chunk carries the titles in
\* force at each block whose text was accumulated into it (a block with an
\* empty text adds no content), and H1, content, H3, content gives two
\* chunks, the second with H1 as chapter and no section.
C8_HeaderInheritance ==
    /\ Titles(current_chapter, current_section, current_subsection,
              current_subsubsection) = TitlesInForce(Len(ck_data))
    /\ \A k \in 1..Len(chunks) : \A i \in Range(chunks[k].source_nodes) :
          ck_data[i].tokens > 0 => ChunkTitles(chunks[k]) = TitlesInForce(i)
    /\ (ck_pc = "done" /\ H1ContentH3Content) =>
          /\ Len(chunks) = 2
          /\ ChunkTitles(chunks[1]) = Titles("1", None, None, None)
          /\ ChunkTitles(chunks[2]) = Titles("1", None, "3", None)

C8_Witness ==
    /\ ck_pc = "done"
    /\ H1ContentH3Content
    /\ Len(chunks) = 2
    /\ chunks[2].chapter_title = "1"
    /\ chunks[2].section_title = None

\* No content block read so far has an empty text
NoEmptyText == \A i \in DOMAIN ck_data : IsContent(i) => ck_data[i].tokens > 0

\* ---- vocabulary of the claims about process_documents
Files == Range(input_paths)
ArtifactKinds == {"json", "text", "table", "chunk"}
DistinctStems == \A f \in Files, g \in Files : f # g => Stem(f) # Stem(g)
RunEnded == phase = "reported" /\ Files # {}
FailedNow(path) == \E stage \in Stages : fut[path][stage] \in {"null", "raise"}
DoneNow(path) == \A stage \in Stages : fut[path][stage] = "ok"
SecondRun == run >= 2
PrevAllSucceeded == Files \subseteq prev.pdone
Changed(path) == prev.ver0[path] # prev.pver[path]
HasDocuments(path) ==
    \E i \in 1..Len(combined_chunks) : combined_chunks[i].filename = path
SameBatch(f, g) ==
    \/ {f, g} \subseteq light_files
    \/ {f, g} \subseteq heavy_files
BatchReturned(path) ==
    \/ path \in light_files /\ phase \in {"heavy_enter", "heavy_run", "merge",
                                          "returned", "reported"}
    \/ path \in heavy_files /\ phase \in {"merge", "returned", "reported"}
BatchOut(path) == IF path \in light_files THEN l_out ELSE h_out

\* C2: when a file's content changed between two runs that both succeed, the
\* second run reconverts the file and rewrites its converted, text, table and
\* chunk artifacts from the new content, and rewrites no artifact of a file
\* whose content did not change.
C2_ChecksumInvalidation ==
    (RunEnded /\ SecondRun /\ DistinctStems /\ PrevAllSucceeded
       /\ \A q \in Files : DoneNow(q)) =>
        \A path \in Files :
            /\ Changed(path) =>
                 /\ <<path, "convert">> \in ran
                 /\ \A k \in ArtifactKinds :
                      /\ <<Stem(path), k, path>> \in writes
                      /\ disk[Stem(path)][k] = generate_file_checksum(path, ver)
            /\ ~Changed(path) =>
                 \A k \in ArtifactKinds, q \in Files : <<Stem(path), k, q>> \notin writes

\* C4: a file whose conversion, extraction or chunking failed in a run that
\* returned results has no later stage submitted, has no document in the
\* result, and is reported by ingest as an unprocessed file.
C4_FailedFileReported ==
    (RunEnded /\ ~ReturnedNone) =>
        \A path \in Files : FailedNow(path) =>
            /\ fut[path].conv \in {"null", "raise"} => fut[path].proc = "none"
            /\ fut[path].proc \in {"null", "raise"} => fut[path].chunk = "none"
            /\ ~HasDocuments(path)
            /\ path \in unprocessed_files

\* C5: in a second run on unchanged files after a run in which every file
\* completed all stages, no conversion, text, table or chunking step executes
\* (no engine, LLM or tokenizer call) and no chunk artifact is written.
C5_Idempotence ==
    (SecondRun /\ phase # "idle" /\ PrevAllSucceeded /\ \A q \in Files : ~Changed(q)) =>
        /\ ran = {}
        /\ \A w \in writes : w[2] # "chunk"
        /\ \A st \in Stems : disk[st]["chunk"] = prev.disk0[st]["chunk"]

\* C5 for file sets whose files have distinct stems
C5_DistinctStems == DistinctStems => C5_Idempotence

\* C6: once a file's extraction has completed, the main thread can submit it
\* to chunking at once, whatever conversions of the batch are still in flight.
C6_ChunkingNotBehindConversions ==
    \A path \in AllPaths :
        (Running /\ fut[path].proc = "ok" /\ <<path, "proc">> \notin handled)
            => ENABLED HandleProcess(path)

\* What holds instead of C6's reachable state: no file is queued for or in
\* chunking while a conversion of the batch is unfinished.
ChunkingAwaitsAllConversions ==
    \A f \in AllPaths, g \in AllPaths :
        ~(fut[f].chunk \in {"pending", "running"} /\ fut[g].conv \in {"pending", "running"})

\* C9: in a run on unchanged contents without failures that follows a run with
\* a failed stage, each of convert, text, table and chunk executes for a file
\* exactly when its artifact was missing at the start of the run, and every
\* file ends fully processed and in the result.
C9_ResumeMissingStages ==
    (RunEnded /\ SecondRun /\ prev.pfailed # {} /\ (\A q \in Files : ~Changed(q))
       /\ ~ReturnedNone /\ \A q \in Files : ~FailedNow(q)) =>
        \A path \in Files :
            /\ <<path, "convert">> \in ran <=> prev.disk0[Stem(path)]["json"] = NoFile
            /\ <<path, "text">> \in ran <=> prev.disk0[Stem(path)]["text"] = NoFile
            /\ <<path, "table">> \in ran <=> prev.disk0[Stem(path)]["table"] = NoFile
            /\ <<path, "chunk">> \in ran <=> prev.disk0[Stem(path)]["chunk"] = NoFile
            /\ \A k \in ArtifactKinds : disk[Stem(path)][k] # NoFile
            /\ DoneNow(path)
            /\ HasDocuments(path)

\* C9 for file sets whose files have distinct stems
C9_DistinctStems == DistinctStems => C9_ResumeMissingStages

\* The stats entry _run_batch returns for a file that goes through every
\* stage when it is alone in its batch: the counts come from its own PDF, its
\* own conversion of this run, or its artifacts as the run found them
AloneStats(path) ==
    LET stats == filtered_input_paths[path]
        d0 == IF stats.convert
              THEN [prev.disk0 EXCEPT ![Stem(path)]["json"] =
                                          generate_file_checksum(path, prev.ver0)]
              ELSE prev.disk0
    IN [keys |-> {"conversion", "page_count", "table_count", "chunking"}
                     \cup ProcessTimings(stats),
        page_count |-> ReturnedPageCount(path, stats, prev.ver0),
        table_count |-> ReturnedTableCount(path, stats, d0)]

\* C10: when a file of a batch fails at conversion, extraction or chunking,
\* every other file of the batch whose own stages succeed is taken through
\* all three stages, and the batch result holds its table and chunk artifact
\* paths and the stats entry it would hold had the failing file not been in
\* the batch.
C10_SiblingsUnaffected ==
    \A f \in Files, g \in Files :
        (f # g /\ SameBatch(f, g) /\ BatchReturned(g) /\ FailedNow(f) /\ ~FailedNow(g)) =>
            /\ DoneNow(g)
            /\ BatchOut(g).stats[g] = AloneStats(g)
            /\ Stem(g) \in BatchOut(g).chunk_paths
            /\ Stem(g) \in BatchOut(g).table_paths

\* C10 for batches whose files have distinct stems
C10_DistinctStems == DistinctStems => C10_SiblingsUnaffected

C10_Witness ==
    \E f \in Files, g \in Files :
        /\ f # g /\ SameBatch(f, g) /\ BatchReturned(g)
        /\ Stem(f) # Stem(g)
        /\ FailedNow(f)
        /\ DoneNow(g)
        /\ BatchOut(g).stats[g] = AloneStats(g)
        /\ BatchOut(g).stats[f].keys \subseteq {"conversion"}
        /\ Stem(g) \in BatchOut(g).chunk_paths

\* ---- C11..C20

\* C11: a file's extraction is submitted (and its text and table steps run)
\* only after that file's conversion has returned a handle and loop B has
\* taken it, and its chunking is submitted (and runs) only after that file's
\* extraction has returned its paths and loop C has taken it.
C11_StagesSequentialPerFile ==
    \A path \in AllPaths :
        /\ fut[path].proc # "none" =>
               fut[path].conv = "ok" /\ (Running /\ path \in batch_paths =>
                                            <<path, "conv">> \in handled)
        /\ fut[path].chunk # "none" =>
               fut[path].proc = "ok" /\ (Running /\ path \in batch_paths =>
                                            <<path, "proc">> \in handled)
        /\ (\E step \in {"text", "table"} : <<path, step>> \in ran) =>
               fut[path].conv = "ok"
        /\ <<path, "chunk">> \in ran => fut[path].proc = "ok"

\* A file is in chunking and a sibling of its batch stopped at conversion
C11_Witness ==
    \E f \in Files, g \in Files :
        /\ Running
        /\ fut[f].chunk = "running" /\ fut[f].proc = "ok" /\ fut[f].conv = "ok"
        /\ fut[g].conv \in {"null", "raise"} /\ fut[g].proc = "none"
        /\ <<g, "conv">> \in handled

\* process_documents has computed the flags of the run
InRun == run >= 1 /\ phase \notin {"off", "idle"}

\* C12: for every file of a run, convert is true exactly when the cache held
\* no checksum file for it, the stored checksum differs from that of the
\* file's content, or the converted document is missing; and when convert is
\* false, text_processed, table_processed and chunked are each the presence
\* of the text, table and chunk artifact at the start of the run.
C12_ChangeFlags ==
    InRun =>
        \A path \in Files :
            LET f == prev.disk0[Stem(path)]
                stats == filtered_input_paths[path]
            IN /\ stats.convert <=>
                    \/ f["checksum"] = NoFile
                    \/ f["checksum"] # generate_file_checksum(path, prev.ver0)
                    \/ f["json"] = NoFile
               /\ ~stats.convert =>
                    /\ stats.text_processed <=> f["text"] # NoFile
                    /\ stats.table_processed <=> f["table"] # NoFile
                    /\ stats.chunked <=> f["chunk"] # NoFile

\* A run that finds one file with a matching checksum and no converted
\* document, and another converted with its text but not its tables
C12_Witness ==
    /\ InRun
    /\ \E f \in Files, g \in Files :
        /\ prev.disk0[Stem(f)]["checksum"] = generate_file_checksum(f, prev.ver0)
        /\ prev.disk0[Stem(f)]["json"] = NoFile
        /\ filtered_input_paths[f].convert
        /\ ~filtered_input_paths[g].convert
        /\ filtered_input_paths[g].text_processed
        /\ ~filtered_input_paths[g].table_processed
        /\ ~filtered_input_paths[g].chunked

\* C13: during a run, the checksum file of every file whose convert flag is
\* true holds the checksum of that file's content, from before the first
\* conversion is submitted, and the checksum file of a file whose convert flag
\* is false is as the run found it.
C13_ChecksumPersisted ==
    InRun =>
        \A path \in Files :
            IF filtered_input_paths[path].convert
            THEN disk[Stem(path)]["checksum"] = generate_file_checksum(path, prev.ver0)
            ELSE disk[Stem(path)]["checksum"] = prev.disk0[Stem(path)]["checksum"]

\* C13 for file sets whose files have distinct stems
C13_DistinctStems == DistinctStems => C13_ChecksumPersisted

\* C14: when process_converted_document is called for a file with an unchanged
\* checksum and its converted document present, with the text artifact present
\* and the table artifact missing, it does not run the text step and leaves
\* the text artifact as it was, and it runs the table step if the converted
\* document loads; symmetrically when only the text artifact is missing.
C14_IndependentResume ==
    LET before == f_disk0[FileStem]
        now == f_disk[FileStem]
        loads == before["json"] \notin {NoFile, Corrupt}
    IN (f_ret.proc # "none" /\ ~f_stats.convert) =>
        /\ (f_stats.text_processed /\ ~f_stats.table_processed) =>
              /\ "text" \notin f_ran /\ "text" \notin f_wrote
              /\ now["text"] = before["text"]
              /\ loads <=> "table" \in f_ran
              /\ f_ret.proc = "ok" => now["table"] = before["json"]
        /\ (f_stats.table_processed /\ ~f_stats.text_processed) =>
              /\ "table" \notin f_ran /\ "table" \notin f_wrote
              /\ now["table"] = before["table"]
              /\ loads <=> "text" \in f_ran
              /\ f_ret.proc = "ok" => now["text"] = before["json"]

\* The table artifact is there and the text artifact is not: only the text
\* step ran, and it wrote the text artifact
C14_Witness ==
    /\ f_ret.proc = "ok" /\ ~f_stats.convert
    /\ f_stats.table_processed /\ ~f_stats.text_processed
    /\ f_ran = {"text"} /\ f_wrote = {"text"}
    /\ f_disk[FileStem]["table"] = f_disk0[FileStem]["table"]
    /\ f_disk[FileStem]["text"] = f_disk0[FileStem]["json"]

\* C15: a conversion, text, table or chunking step that fails has written
\* nothing: the artifact of that step is as it was before the step, missing
\* if it was missing.
C15_NoArtifactFromFailedStep ==
    LET before == f_disk0[FileStem]
        now == f_disk[FileStem]
        text_failed == f_ret.proc = "null" /\ "text" \in f_ran /\ "table" \notin f_ran
        table_failed == f_ret.proc = "null" /\ "table" \in f_ran
        chunk_failed == f_ret.chunk = "null" /\ "chunk" \in f_ran
    IN /\ (f_ret.conv \in {"null", "raise"}) =>
             "json" \notin f_wrote /\ now["json"] = before["json"]
       /\ text_failed => "text" \notin f_wrote /\ now["text"] = before["text"]
       /\ table_failed => "table" \notin f_wrote /\ now["table"] = before["table"]
       /\ chunk_failed => "chunk" \notin f_wrote /\ now["chunk"] = before["chunk"]

\* The files that wrote the artifact `k` of stem `st` in this run
WritersOf(st, k) == {q \in AllPaths : <<st, k, q>> \in writes}

\* C16: in a run, every converted, text, table and chunk artifact file is
\* written by the worker of at most one input file, and no two workers are at
\* the same time in steps that write the same artifact file.
C16_SingleWriter ==
    /\ \A st \in Stems, k \in ArtifactKinds : Cardinality(WritersOf(st, k)) <= 1
    /\ \A f \in Files, g \in Files, stage \in Stages :
          (f # g /\ Stem(f) = Stem(g)) =>
              ~(/\ fut[f][stage] = "running" /\ fut[g][stage] = "running"
                /\ IF stage = "conv"
                   THEN filtered_input_paths[f].convert /\ filtered_input_paths[g].convert
                   ELSE IF stage = "proc"
                   THEN \/ ~filtered_input_paths[f].text_processed
                           /\ ~filtered_input_paths[g].text_processed
                        \/ ~filtered_input_paths[f].table_processed
                           /\ ~filtered_input_paths[g].table_processed
                   ELSE FALSE)

\* C16 for file sets whose files have distinct stems
C16_DistinctStems == DistinctStems => C16_SingleWriter

\* summarize_table has returned
Summarized == tb_pc \in {"classify_text_with_llm", "write", "done"} /\ tb_n > 0

\* C17: summarize_table returns one summary per table; the summary at the
\* index of a table whose summarization failed is the placeholder, and the
\* summary at every other index is the reply for the table of that index,
\* whatever the order in which the futures completed.
C17_SummariesAligned ==
    /\ tb_pc # "idle" /\ tb_summaries # <<>> =>
          /\ Len(tb_summaries) = tb_n
          /\ \A i \in 1..tb_n :
                \/ tb_summaries[i] = "None"
                \/ tb_summaries[i] = NO_SUMMARY
                \/ tb_summaries[i] = <<"reply", i>>
    /\ Summarized =>
          /\ Len(tb_summaries) = tb_n
          /\ \A i \in 1..tb_n :
                tb_summaries[i] = IF i \in tb_sum_failed THEN NO_SUMMARY
                                  ELSE <<"reply", i>>

\* Three tables, the second failed
C17_Witness ==
    /\ Summarized
    /\ tb_n = 3
    /\ tb_sum_failed = {2}
    /\ tb_summaries = <<(<<"reply", 1>>), NO_SUMMARY, (<<"reply", 3>>)>>

\* process_documents has returned its two results
Returned == phase \in {"returned", "reported"} /\ Files # {}

\* C18: the stats map process_documents returns, when it returns one, has an
\* entry exactly for the files whose conversion returned a handle, and every
\* entry has the
\* conversion timing, the timings of the later stages the file completed, and
\* page_count and table_count.
C18_StatsEntries ==
    (Returned /\ ~ReturnedNone) =>
        \A path \in Files :
            LET entry == converted_pdf_stats[path]
            IN /\ entry.keys # {} <=> fut[path].conv = "ok"
               /\ entry.keys # {} =>
                    /\ "conversion" \in entry.keys
                    /\ fut[path].proc = "ok" =>
                          ProcessTimings(filtered_input_paths[path]) \subseteq entry.keys
                    /\ fut[path].chunk = "ok" => "chunking" \in entry.keys
                    /\ {"page_count", "table_count"} \subseteq entry.keys


\* The merge loop opens an artifact that was cut short: a file of the returned
\* stats whose chunk and table paths were both returned has one
MergeReadsCutShort ==
    \E path \in Files :
        /\ MergedStats(l_out.stats, h_out.stats)[path].keys # {}
        /\ Stem(path) \in l_out.chunk_paths \cup h_out.chunk_paths
        /\ Stem(path) \in l_out.table_paths \cup h_out.table_paths
        /\ Corrupt \in {disk[Stem(path)]["chunk"], disk[Stem(path)]["table"]}

\* C19: process_documents returns (None, None) exactly when an exception left
\* a batch or the merge; ingest then inserts nothing and lists no unprocessed
\* file. Per-file stage failures alone leave the chunk list and the stats map
\* non-null, and ingest inserts the chunk list.
C19_TotalFailure ==
    Returned =>
        /\ ReturnedNone <=> (pipeline_error = "batch" \/ MergeReadsCutShort)
        /\ ReturnedNone =>
              /\ combined_chunks = <<>>
              /\ StatsKeys(converted_pdf_stats) = {}
              /\ phase = "reported" =>
                    inserted_chunks = <<>> /\ unprocessed_files = {}
        /\ (~ReturnedNone /\ phase = "reported") => inserted_chunks = combined_chunks

\* An exception left the merge of a run over files of distinct stems
C19_Witness ==
    /\ phase = "reported"
    /\ pipeline_error = "merge"
    /\ DistinctStems

\* A run with per-file failures only: a file failed, another was inserted
C19_PerFileFailureOnly ==
    /\ phase = "reported"
    /\ ~ReturnedNone
    /\ \E path \in Files : FailedNow(path)
    /\ inserted_chunks # <<>>


\* C20: a file is in the heavy map iff pdfium reads 500 pages or more from it,
\* and in the light map otherwise; a file that cannot be opened is light. The
\* maps are disjoint, their keys are the input files, and the flags of each
\* key are the flags computed for the file.
C20_Partition ==
    InRun =>
        /\ \A path \in Files :
              /\ path \in heavy_files <=> (Readable(path) /\ PdfPages(path) >= 500)
              /\ path \in light_files <=> ~(Readable(path) /\ PdfPages(path) >= 500)
        /\ light_files \cap heavy_files = {}
        /\ light_files \cup heavy_files = Files
        /\ DOMAIN filtered_input_paths = Files
        /\ \A path \in Files :
              filtered_input_paths[path] = ChangeFlags(path, prev.disk0, prev.ver0)

\* A run over a file of exactly 500 pages and a shorter one
C20_Witness ==
    /\ InRun
    /\ "d/z.pdf" \in heavy_files
    /\ light_files # {}

\* A run over a long file that cannot be opened: it is light
C20_UnreadableIsLight ==
    /\ InRun
    /\ "c/y.pdf" \in light_files



\* C21: the conversions running at once are at most min(4, batch size) in the
\* light batch and min(2, batch size) in the heavy batch; the extractions
\* running at once, and the chunkings, are at most min(4, batch size).
C21_PoolBounds ==
    p_loop # "off" =>
        /\ Cardinality(PoolRunning("conv")) <= (IF p_heavy THEN Min(2, p_n) ELSE Min(4, p_n))
        /\ Cardinality(PoolRunning("proc")) <= Min(4, p_n)
        /\ Cardinality(PoolRunning("chunk")) <= Min(4, p_n)

\* The light conversion pool is full while a fifth conversion waits
C21_Witness ==
    /\ ~p_heavy
    /\ Cardinality(PoolRunning("conv")) = 4
    /\ \E i \in PoolFiles : p_fut[i].conv = "pending"

\* The heavy conversion pool is full while a third conversion waits
C21_HeavyPoolFull ==
    /\ p_heavy
    /\ Cardinality(PoolRunning("conv")) = 2
    /\ \E i \in PoolFiles : p_fut[i].conv = "pending"

\* The extraction pool is full while a fifth extraction waits
C21_ProcessPoolFull ==
    /\ Cardinality(PoolRunning("proc")) = 4
    /\ \E i \in PoolFiles : p_fut[i].proc = "pending"


\* C22: convert_document does not raise. When the conversion engine or the
\* save raises it returns the null handle; when the convert flag is false it
\* returns the path of the existing converted document without running the
\* engine and without touching the file. The future raises only when the
\* worker process is lost.
C22_ConvertNeverRaises ==
    f_ret.conv # "none" =>
        /\ f_res.conv \in {"null", "null_partial"} => f_ret.conv = "null"
        /\ f_ret.conv = "raise" => f_res.conv = "raise"
        /\ ~f_stats.convert =>
              /\ f_ret.conv = "ok"
              /\ "convert" \notin f_ran
              /\ "json" \notin f_wrote
              /\ f_disk0[FileStem]["json"] # NoFile
        /\ (f_stats.convert /\ f_res.conv = "ok") =>
              /\ f_ret.conv = "ok"
              /\ "convert" \in f_ran

\* The save of a conversion failed and convert_document returned the null handle
C22_Witness ==
    /\ f_res.conv = "null_partial"
    /\ f_ret.conv = "null"

\* A conversion skipped because the convert flag is false
C22_SkipWitness ==
    /\ f_ret.conv = "ok"
    /\ ~f_stats.convert


\* The chunks one flush emitted: those made from the same buffer as chunk k
\* (a buffer's source_nodes are block indices no other buffer holds)
FlushOf(k) == {j \in 1..Len(chunks) : chunks[j].source_nodes = chunks[k].source_nodes}
FirstOf(S) == CHOOSE j \in S : \A m \in S : j <= m

\* C23: the chunks of a flush that emitted n chunks have a part_id iff n > 1,
\* and then the part_ids are 1..n in the order the chunks were emitted; the
\* chunk of a flush that emitted one chunk has no part_id.
C23_PartIds ==
    \A k \in 1..Len(chunks) :
        LET n == Cardinality(FlushOf(k))
        IN /\ FlushOf(k) = FirstOf(FlushOf(k))..(FirstOf(FlushOf(k)) + n - 1)
           /\ "part_id" \in DOMAIN chunks[k] <=> n > 1
           /\ n > 1 => chunks[k].part_id = k - FirstOf(FlushOf(k)) + 1

\* A flush that emitted two chunks, followed by one that emitted one
C23_Witness ==
    /\ Len(chunks) = 3
    /\ Cardinality(FlushOf(1)) = 2
    /\ chunks[2].part_id = 2
    /\ "part_id" \notin DOMAIN chunks[3]

\* A flush that emitted three chunks
C23_ThreeParts ==
    /\ Len(chunks) = 3
    /\ Cardinality(FlushOf(1)) = 3
    /\ chunks[3].part_id = 3


\* What C24 says of two consecutive sub-chunks a, b of a call with `overlap`
SeededFrom(a, b, overlap) ==
    IF overlap > 0
    THEN /\ a # <<>>
         /\ b # <<>>
         /\ b[1] = a[Len(a)]
         /\ Range(a) \cap Range(b) = {b[1]}
    ELSE Range(a) \cap Range(b) = {}

\* C24: when overlap > 0 every sub-chunk after the first starts with the last
\* sentence of the sub-chunk closed before it and shares exactly that sentence
\* with it; when overlap is 0 consecutive sub-chunks share no sentence.
C24_OverlapSeed ==
    sp_pc = "out" =>
        \A i \in 1..(Len(sp_chunks) - 1) :
            SeededFrom(sp_chunks[i], sp_chunks[i + 1], sp_overlap)

\* C24 for the sub-chunks closed with at least one sentence in them
C24_NonEmptyClosed ==
    sp_pc = "out" =>
        \A i \in 1..(Len(sp_chunks) - 1) :
            sp_chunks[i] # <<>> =>
                SeededFrom(sp_chunks[i], sp_chunks[i + 1], sp_overlap)

\* Only the first sub-chunk can be empty, and only when the first sentence
\* alone exceeds the budget
C24_EmptyOnlyFirst ==
    sp_pc = "out" =>
        \A i \in 1..Len(sp_chunks) :
            sp_chunks[i] = <<>> => (i = 1 /\ sp_tokens[1] > sp_max)


\* The texts process_text must emit, and the blocks made from text i
Emitted == {i \in DOMAIN tx_texts : tx_texts[i].label \notin excluded_labels}
BlocksOf(i) == {k \in DOMAIN structured_output : structured_output[k].src = i}

\* C25: process_text emits, in document order, exactly one block, with its
\* label, for every text whose label is not excluded and none for the others;
\* a section_header with no ToC match or no font size is emitted too, once,
\* with no font size.
C25_OneBlockPerText ==
    /\ \A i \in DOMAIN tx_texts :
          Cardinality(BlocksOf(i)) = (IF i \in Emitted THEN 1 ELSE 0)
    /\ \A k \in DOMAIN structured_output :
          /\ structured_output[k].label = tx_texts[structured_output[k].src].label
          /\ k > 1 => structured_output[k - 1].src < structured_output[k].src

\* C25 for documents whose headers have one prov entry and, when there is no
\* ToC, a line found on their page
C25_SingleProvFound ==
    (\A i \in DOMAIN tx_texts :
        tx_texts[i].label = "section_header" =>
            /\ tx_texts[i].prov = 1
            /\ toc_headers = <<>> => tx_texts[i].font # "none")
    => C25_OneBlockPerText

\* A header whose line has no exact match is emitted without font size
C25_FuzzyEmitted ==
    \E k \in DOMAIN structured_output :
        /\ tx_texts[structured_output[k].src].font = "fuzzy"
        /\ structured_output[k].font_size = NoFont


\* A section_header that left no block in the text artifact
C25_HeaderDropped ==
    \E i \in DOMAIN tx_texts :
        /\ tx_texts[i].label = "section_header"
        /\ BlocksOf(i) = {}

\* The level of the ToC title matched by text i, 0 when it matches none, and
\* the level of the last header among the first i texts that matched a title
TocLevelOf(i) ==
    IF \E t \in DOMAIN Toc : Toc[t].title \in tx_texts[i].matches
    THEN Toc[CHOOSE t \in DOMAIN Toc :
                 /\ Toc[t].title \in tx_texts[i].matches
                 /\ \A u \in 1..(t - 1) : Toc[u].title \notin tx_texts[i].matches].level
    ELSE 0
Matched(i) == tx_texts[i].label = "section_header" /\ TocLevelOf(i) > 0
LastMatchedLevel(i) ==
    IF \E j \in 1..i : Matched(j)
    THEN TocLevelOf(CHOOSE j \in 1..i : Matched(j) /\ \A m \in (j + 1)..i : ~Matched(m))
    ELSE 0

\* C26: with a ToC, last_header_level is the level of the last header that
\* matched a ToC title (0 before any did); a matching header is emitted with
\* the level of its title and a header matching none with the level of the
\* last matching header before it plus one.
C26_LastSeenLevel ==
    toc_headers # <<>> =>
        /\ last_header_level = LastMatchedLevel(Len(tx_texts))
        /\ \A k \in DOMAIN structured_output :
              LET i == structured_output[k].src
              IN tx_texts[i].label = "section_header" =>
                    structured_output[k].level =
                        (IF Matched(i) THEN TocLevelOf(i)
                         ELSE LastMatchedLevel(i - 1) + 1)

\* A level-2 match followed by two headers that match nothing: both get level 3
C26_Witness ==
    /\ toc_headers # <<>>
    /\ Len(tx_texts) = 3
    /\ TocLevelOf(1) = 2 /\ tx_texts[1].label = "section_header"
    /\ ~Matched(2) /\ tx_texts[2].label = "section_header"
    /\ ~Matched(3) /\ tx_texts[3].label = "section_header"
    /\ \A k \in DOMAIN structured_output :
          structured_output[k].src \in {2, 3} => structured_output[k].level = 3
    /\ last_header_level = 2


\* C27: after any sequence of create_llm_session calls, SESSION is the session
\* the first call created, with the pool configuration of the first call.
C27_SessionCreatedOnce ==
    /\ session_calls = <<>> => SESSION = NoSession
    /\ session_calls # <<>> =>
          /\ SESSION.id = 1
          /\ SESSION.pool_maxsize = session_calls[1].pool_maxsize
          /\ SESSION.pool_connections = session_calls[1].pool_connections
          /\ SESSION.pool_block = session_calls[1].pool_block

\* Three calls, the later ones with another pool size than the first
C27_Witness ==
    /\ Len(session_calls) = 3
    /\ session_calls[2].pool_maxsize # session_calls[1].pool_maxsize
    /\ session_calls[3].pool_block # session_calls[1].pool_block
    /\ SESSION.pool_maxsize = session_calls[1].pool_maxsize


\* The breadcrumb C28 describes: the non-empty titles of the chunk, in the
\* order Chapter, Section, Subsection, Subsubsection
TitlesInOrder(chunk) ==
    <<[kind |-> "Chapter", title |-> chunk.chapter_title],
      [kind |-> "Section", title |-> chunk.section_title],
      [kind |-> "Subsection", title |-> chunk.subsection_title],
      [kind |-> "Subsubsection", title |-> chunk.subsubsection_title]>>
NonEmptyTitle(e) == e.title \notin {None, ""}
Breadcrumb(chunk) == SelectSeq(TitlesInOrder(chunk), NonEmptyTitle)

\* C28: create_chunk_documents returns one text document per chunk of the
\* chunk artifact, in order, then one table document per table of the table
\* artifact, in order, with the summary as content and the HTML as source; the
\* breadcrumb of a text document lists the non-empty titles of its chunk in
\* the order Chapter, Section, Subsection, Subsubsection.
C28_ChunkDocuments ==
    cd_pc = "out" =>
        /\ Len(combined_docs) = Len(txt_data) + Len(tab_data)
        /\ \A i \in 1..Len(txt_data) :
              /\ combined_docs[i].type = "text"
              /\ combined_docs[i].page_content.content = txt_data[i].content
              /\ combined_docs[i].page_content.meta = Breadcrumb(txt_data[i])
              /\ combined_docs[i].source = Breadcrumb(txt_data[i])
        /\ \A j \in 1..Len(tab_data) :
              LET doc == combined_docs[Len(txt_data) + j]
              IN /\ doc.type = "table"
                 /\ doc.page_content.content = tab_data[j].summary
                 /\ doc.source = tab_data[j].html

\* Two chunks, one with a chapter and a subsection and an empty section, and
\* two tables
C28_Witness ==
    /\ cd_pc = "out"
    /\ Len(txt_data) = 2 /\ Len(tab_data) = 2
    /\ txt_data[1].chapter_title = "T" /\ txt_data[1].section_title = ""
    /\ txt_data[1].subsection_title = "T" /\ txt_data[1].subsubsection_title = None
    /\ Len(combined_docs[1].source) = 2
    /\ combined_docs[4].type = "table"


\* A section_header block is read in this step
HeaderStep ==
    /\ Len(ck_data') = Len(ck_data) + 1
    /\ ck_data'[Len(ck_data')].label = "section_header"

\* What C29 says of such a step
HeaderFlushes ==
    LET emitted == SubSeq(chunks', Len(chunks) + 1, Len(chunks'))
    IN /\ SubSeq(chunks', 1, Len(chunks)) = chunks
       /\ current_chunk.source_nodes # <<>> => emitted # <<>>
       /\ current_chunk.source_nodes = <<>> => emitted = <<>>
       /\ \A k \in DOMAIN emitted :
             /\ ChunkTitles(emitted[k]) = TitlesInForce(Len(ck_data))
             /\ emitted[k].source_nodes = current_chunk.source_nodes
       /\ current_chunk'.content = <<>>
       /\ current_chunk'.page_range = <<>>
       /\ current_chunk'.source_nodes = <<>>
       /\ ChunkTitles(current_chunk') = (TitlesInForce(Len(ck_data)))'

\* C29: on a section_header the blocks accumulated before it are flushed into
\* chunks carrying the titles in force before the header, the buffer is left
\* empty with the titles in force after the header, and a header that follows
\* a header directly emits no chunk.
C29_HeaderFlush == [][HeaderStep => HeaderFlushes]_vars

\* C29 for text artifacts whose content blocks all have a text
C29_NonEmptyTexts == [][(HeaderStep /\ NoEmptyText) => HeaderFlushes]_vars

\* Content, a header that flushed it, and a header right after that one
C29_TwoHeaders ==
    /\ Len(ck_data) = 3
    /\ IsContent(1) /\ ck_data[1].tokens > 0
    /\ IsHeader(2) /\ IsHeader(3)
    /\ Len(chunks) = 1
    /\ current_chunk.source_nodes = <<>>

\* The artifact of `kind` in the cache was made from the content whose
\* checksum is stored (a file cut short holds no content of any version)
FromStoredContent(kind) ==
    \/ f_disk[FileStem][kind] = Corrupt
    \/ f_disk[FileStem][kind] = f_disk[FileStem]["checksum"]

\* C30: whenever a stage is skipped for the file on its flag (convert false,
\* text_processed, table_processed or chunked true), the artifact reused in
\* its place was made from the content whose checksum is the stored one; a
\* content change followed by a failed reconversion leaves nothing of the old
\* content for the next run to reuse.
C30_ReuseMatchesChecksum ==
    /\ (f_ret.conv # "none" /\ ~f_stats.convert) => FromStoredContent("json")
    /\ (f_ret.proc # "none" /\ f_stats.text_processed) => FromStoredContent("text")
    /\ (f_ret.proc # "none" /\ f_stats.table_processed) => FromStoredContent("table")
    /\ (f_ret.chunk # "none" /\ f_stats.chunked) => FromStoredContent("chunk")

\* The cache the run found held nothing of another content than the one whose
\* checksum it stored
ConsistentCache ==
    \A k \in ArtifactKinds :
        f_disk0[FileStem][k] \in {NoFile, Corrupt, f_disk0[FileStem]["checksum"]}

\* C30 for runs that start on a cache without artifacts of another content
C30_ConsistentCache == ConsistentCache => C30_ReuseMatchesChecksum

\* The run after a content change and a failed reconversion: the checksum of
\* the new content is stored, every artifact is of the old content, and the
\* run skipped every stage
C30_AfterFailedReconversion ==
    /\ f_pc = "end"
    /\ f_disk0[FileStem]["checksum"] = generate_file_checksum(FilePath, FileVer)
    /\ \A k \in ArtifactKinds : f_disk0[FileStem][k] = [path |-> FilePath, ver |-> 0]
    /\ ~f_stats.convert /\ f_stats.text_processed
    /\ f_stats.table_processed /\ f_stats.chunked
    /\ f_ret = [conv |-> "ok", proc |-> "ok", chunk |-> "ok"]
    /\ f_ran = {}

\* A run of process_documents on files of distinct stems has returned and left
\* the checksum of the new content of a file next to artifacts of its old
\* content: the converted document, the text, table and chunk artifacts
C30_StaleCacheLeft ==
    /\ DistinctStems
    /\ RunEnded
    /\ \E f \in Files :
          /\ ver[f] = 1
          /\ disk[Stem(f)]["checksum"] = generate_file_checksum(f, ver)
          /\ \A k \in ArtifactKinds : disk[Stem(f)][k] = [path |-> f, ver |-> 0]

\* C31: for a non-empty buffer, whatever the sentence token lengths, every
\* element split_text_into_token_chunks returns holds at least one sentence.
C31_NoEmptyChunk ==
    (sp_pc = "out" /\ sp_tokens # <<>>) =>
        \A i \in 1..Len(sp_chunks) : sp_chunks[i] # <<>>

\* C31 for buffers whose first sentence fits the budget
C31_FirstSentenceFits ==
    (sp_pc = "out" /\ sp_tokens # <<>> /\ sp_tokens[1] <= sp_max) =>
        \A i \in 1..Len(sp_chunks) : sp_chunks[i] # <<>>

\* flush_chunk's call on a buffer whose first sentence alone exceeds the budget
C31_OversizedFirst ==
    /\ sp_pc = "out"
    /\ sp_via = "flush_chunk"
    /\ sp_tokens[1] > sp_max
    /\ sp_chunks[1] = <<>>

\* The sentences first..last, in order
Run(first, last) == [k \in 1..(last - first + 1) |-> first + k - 1]

\* Sub-chunk i without its overlap sentence: the sentence at its start that
\* is the last sentence of the sub-chunk returned before it
WithoutOverlap(i) ==
    LET b == sp_chunks[i]
        a == IF i > 1 THEN sp_chunks[i - 1] ELSE <<>>
    IN IF a # <<>> /\ b # <<>> /\ b[1] = a[Len(a)] THEN Tail(b) ELSE b

RECURSIVE Concatenated(_)
Concatenated(n) == IF n = 0 THEN <<>> ELSE Concatenated(n - 1) \o WithoutOverlap(n)

\* C32: every sentence of the buffer is in at least one returned sub-chunk,
\* each sub-chunk is a run of consecutive sentences in their original order,
\* and the sub-chunks without their overlap sentences, concatenated, are the
\* original sentence sequence.
C32_NothingLost ==
    sp_pc = "out" =>
        /\ \A s \in DOMAIN sp_tokens :
              \E i \in DOMAIN sp_chunks : s \in Range(sp_chunks[i])
        /\ \A i \in DOMAIN sp_chunks :
              sp_chunks[i] # <<>> =>
                  sp_chunks[i] = Run(sp_chunks[i][1], sp_chunks[i][Len(sp_chunks[i])])
        /\ Concatenated(Len(sp_chunks)) = Run(1, Len(sp_tokens))

\* A call with overlap that returned three sub-chunks, the later two seeded
C32_Witness ==
    /\ sp_pc = "out"
    /\ sp_overlap > 0
    /\ Len(sp_chunks) >= 3
    /\ \A i \in 2..Len(sp_chunks) : WithoutOverlap(i) # sp_chunks[i]

\* A call without overlap that returned several sub-chunks
C32_NoOverlapSplit ==
    /\ sp_pc = "out"
    /\ sp_overlap = 0
    /\ Len(sp_chunks) >= 3

\* A stage of a file of the batch is under way: submitted and not returned
UnderWay(files) ==
    \E q \in files, stage \in Stages : fut[q][stage] \in {"pending", "running"}

\* A stage of a file of the batch has been handed to a pool in this run
Begun(files) == \E q \in files, stage \in Stages : fut[q][stage] # "none"

\* C33: no stage of a heavy file is submitted or started while a stage of a
\* light file is submitted or running, the heavy batch is entered only when no
\* stage of a light file is under way, and the results are merged only when
\* no stage of any file is under way.
C33_BatchesInTurn ==
    /\ Begun(heavy_files) => ~InLight /\ ~UnderWay(light_files)
    /\ phase \in {"heavy_enter", "heavy_run"} => ~UnderWay(light_files)
    /\ phase = "merge" => ~UnderWay(light_files \cup heavy_files)
    /\ (phase \in {"returned", "reported"} /\ combined_chunks # <<>>) =>
          ~UnderWay(light_files \cup heavy_files)

\* A heavy file in a worker after a light batch whose file went through every
\* stage
C33_Witness ==
    /\ phase = "heavy_run"
    /\ \E q \in light_files : fut[q].chunk = "ok"
    /\ \E q \in heavy_files : fut[q].conv = "running"

\* The documents of a light and of a heavy file merged
C33_BothMerged ==
    /\ phase = "returned"
    /\ \E q \in light_files : fut[q].chunk = "ok"
    /\ \E q \in heavy_files : fut[q].chunk = "ok"
    /\ Len(combined_chunks) = 2

\* The positions of combined_chunks that hold the documents of `path`
DocumentsOf(path) == {i \in DOMAIN combined_chunks : combined_chunks[i].filename = path}

\* The three stage calls of the file all returned successfully in this run
FullyProcessed(path) ==
    /\ fut[path].conv = "ok"
    /\ fut[path].proc = "ok"
    /\ fut[path].chunk = "ok"

\* C34: the documents process_documents returns hold documents of a file iff
\* its conversion, extraction and chunking calls all returned successfully in
\* this run (executed or skipped); a file that stopped at a stage contributes
\* none, and a fully processed file of a distinct stem contributes its own
\* documents exactly once.
C34_MergedIffComplete ==
    (phase \in {"returned", "reported"} /\ ~ReturnedNone) =>
        \A path \in Files :
            /\ DocumentsOf(path) # {} <=> FullyProcessed(path)
            /\ (DistinctStems /\ FullyProcessed(path)) =>
                  /\ Cardinality(DocumentsOf(path)) = 1
                  /\ \A i \in DocumentsOf(path) :
                        /\ combined_chunks[i].chunks_of.path = path
                        /\ combined_chunks[i].tables_of.path = path

\* C34 for inputs whose files have distinct stems
C34_DistinctStems == DistinctStems => C34_MergedIffComplete

\* Two files of distinct stems, one fully processed and one stopped at a
\* stage: the documents returned are those of the first only
C34_Witness ==
    /\ phase = "returned"
    /\ ~ReturnedNone
    /\ DistinctStems
    /\ Len(combined_chunks) = 1
    /\ \E p \in Files, q \in Files :
          /\ FullyProcessed(p) /\ DocumentsOf(p) # {}
          /\ fut[q].proc = "null" /\ DocumentsOf(q) = {}

\* The file is in a final state: completed, or stopped at conversion, at
\* extraction or at chunking, with nothing of it left in a pool
FinalState(i) ==
    \/ p_fut[i] = [conv |-> "ok", proc |-> "ok", chunk |-> "ok"]
    \/ p_fut[i] = [conv |-> "failed", proc |-> "none", chunk |-> "none"]
    \/ p_fut[i] = [conv |-> "ok", proc |-> "failed", chunk |-> "none"]
    \/ p_fut[i] = [conv |-> "ok", proc |-> "ok", chunk |-> "failed"]

\* _run_batch has returned with every file of the batch in a final state; on
\* the empty batch no executor was created and nothing was submitted
RunBatchReturned ==
    /\ p_loop = "end"
    /\ \A i \in PoolFiles : FinalState(i)
    /\ p_n = 0 => (~p_pools /\ p_fut = NoPoolFutures /\ p_handled = {})

\* C35: when every stage call returns or raises, _run_batch terminates with
\* every file of the batch completed or stopped at conversion, extraction or
\* chunking; on a batch with no files it returns without creating a pool.
C35_BatchTerminates == <>[]RunBatchReturned

\* _run_batch never returns with a file short of a final state
C35_ReturnsFinal == p_loop = "end" => RunBatchReturned

\* A batch returned with one file completed, one stopped at extraction and
\* one stopped at chunking
C35_Witness ==
    /\ p_loop = "end"
    /\ p_n = 3
    /\ p_fut[1].chunk = "ok"
    /\ p_fut[2].proc = "failed"
    /\ p_fut[3].chunk = "failed"

\* The empty batch returned
C35_EmptyBatch ==
    /\ p_loop = "end"
    /\ p_n = 0
    /\ ~p_pools

\* The jobs of an operation type that hold a slot: accepted and not ended
Holding(op) ==
    {id \in DOMAIN j_log : j_log[id].op = op /\ j_log[id].task \in {"scheduled", "running"}}

\* C36: at most 1 ingestion job and at most 2 digitization jobs hold a slot;
\* a POST that arrives with no free slot of its operation type gets 429, a
\* digitization request with more than one file gets 400, both without
\* acquiring a slot; every accepted job releases exactly one slot when its
\* background task ends, completed or failed.
C36_JobSlots ==
    /\ ~j_overrelease
    /\ Cardinality(Holding("ingestion")) <= 1
    /\ Cardinality(Holding("digitization")) <= 2
    /\ \A op \in Operations : j_sem[op] = Slots(op) - Cardinality(Holding(op))
    /\ \A id \in DOMAIN j_log :
          LET r == j_log[id]
          IN /\ r.free = 0 => r.status = 429
             /\ (r.free > 0 /\ r.op = "digitization" /\ r.files > 1) => r.status = 400
             /\ r.status \in {429, 400} => (r.task = "none" /\ r.released = 0)
             /\ r.status = 202 => r.task # "none"
             /\ r.task \in {"completed", "failed"} => r.released = 1
             /\ r.task \in {"scheduled", "running"} => r.released = 0

\* Both digitization slots are held, a third request got 429, and a job that
\* failed has given its slot back
C36_Witness ==
    /\ Cardinality(Holding("digitization")) = 2
    /\ \E id \in DOMAIN j_log : j_log[id].op = "digitization" /\ j_log[id].status = 429
    /\ \E id \in DOMAIN j_log : j_log[id].task = "failed" /\ j_log[id].released = 1

\* A digitization request with two files refused while a slot was free
C36_TooManyFiles ==
    \E id \in DOMAIN j_log :
        j_log[id].status = 400 /\ j_log[id].free > 0 /\ j_sem["digitization"] = j_log[id].free

\* The requests that hold a slot, and those whose response is over
ChatHolding == {id \in DOMAIN c_reqs : c_reqs[id].pc \in {"created", "streaming"}}
ChatOver(id) ==
    c_reqs[id].pc \in {"not_found", "busy", "ended", "failed", "closed", "discarded"}

\* C37: the slots held never exceed max_concurrent_requests; a request that
\* arrives with no free slot gets 429 without acquiring; every slot acquired
\* is released exactly once when its response stream ends, fails, is closed
\* early or is never iterated, so that no slot is held once every request is
\* over.
C37_SlotsReleased ==
    /\ c_free \in 0..max_concurrent_requests
    /\ \A id \in DOMAIN c_reqs :
          LET r == c_reqs[id]
          IN /\ (r.docs /\ r.free = 0) => (r.status = 429 /\ ~r.acquired)
             /\ r.released <= 1
             /\ (r.acquired /\ ChatOver(id)) => r.released = 1
             /\ r.released = 1 => r.acquired
    /\ (\A id \in DOMAIN c_reqs : ChatOver(id)) => c_free = max_concurrent_requests

\* No response so far was dropped before its first chunk was taken
AllIterated == \A id \in DOMAIN c_reqs : c_reqs[id].pc # "discarded"

\* C37 for responses that are iterated at least up to their first chunk
C37_Iterated == AllIterated => C37_SlotsReleased

\* Every request is over, one stream ended, one failed and one was closed
\* early, and every slot is free again
C37_AllReleased ==
    /\ Len(c_reqs) = 3
    /\ {c_reqs[id].pc : id \in DOMAIN c_reqs} = {"ended", "failed", "closed"}
    /\ c_free = max_concurrent_requests

\* A request refused with 429 while every slot was held
C37_Busy ==
    /\ Cardinality(ChatHolding) = max_concurrent_requests
    /\ \E id \in DOMAIN c_reqs : c_reqs[id].status = 429

\* C38: main of the CLI ends normally on every outcome of ingest: when ingest
\* returns no stats map (no document found, or process_documents failed as a
\* whole) and when a stats entry has no page_count (the file stopped at
\* extraction).
C38_MainEndsNormally == cli_exit \in {"none", "ok"}

\* C38 for runs in which ingest returns a stats map whose entries all went
\* through extraction
C38_CompleteStats ==
    (/\ phase = "reported"
     /\ ~ReturnedNone
     /\ \A q \in StatsKeys(converted_pdf_stats) : HasPageCount(converted_pdf_stats[q]))
        => cli_exit = "ok"

\* main left by the TypeError of iterating None, after a directory without
\* documents and after a total pipeline failure
C38_NoDocuments == input_paths = <<>> /\ run = 1 /\ cli_exit = "TypeError"
C38_TotalFailure == phase = "reported" /\ ReturnedNone /\ cli_exit = "TypeError"

\* main left by the KeyError of an entry without page_count
C38_StoppedAtExtraction ==
    /\ phase = "reported"
    /\ \E q \in Files : fut[q].conv = "ok" /\ fut[q].proc = "null"
    /\ cli_exit = "KeyError"

\* The ranked positions 1..top_r that hold a score at or above the threshold
Qualifying ==
    {i \in DOMAIN s_ranked : i <= s_top_r /\ s_ranked[i].score >= score_threshold}

\* The positions of S in ascending order
RECURSIVE Ascending(_)
Ascending(S) ==
    IF S = {} THEN <<>>
    ELSE LET m == CHOOSE x \in S : \A y \in S : x <= y
         IN <<m>> \o Ascending(S \ {m})

\* C39: search_only returns at most top_r documents, each scored at or above
\* the threshold, in ranked order: exactly the documents ranked at positions
\* 1..top_r whose score reaches the threshold, none ranked after position
\* top_r and none below the threshold.
C39_TopRAboveThreshold ==
    s_pc = "out" =>
        /\ Len(s_out) <= s_top_r
        /\ \A k \in DOMAIN s_out : s_out[k].score >= score_threshold
        /\ s_out = [k \in 1..Cardinality(Qualifying) |-> s_ranked[Ascending(Qualifying)[k]]]

\* C39 for top_r >= 1
C39_PositiveTopR == s_top_r >= 1 => C39_TopRAboveThreshold

\* With the reranker, three ranked documents and top_r = 2: the first is
\* returned, the second is below the threshold and the third is cut
C39_Reranked ==
    /\ s_pc = "out"
    /\ s_use_reranker
    /\ s_top_r = 2
    /\ Len(s_ranked) = 3
    /\ s_ranked[2].score < score_threshold
    /\ s_ranked[3].score >= score_threshold
    /\ s_out = <<s_ranked[1]>>

\* With the reranker and top_r = 0 a document is returned
C39_ZeroTopR ==
    /\ s_pc = "out"
    /\ s_use_reranker
    /\ s_top_r = 0
    /\ s_out # <<>>

====
